---- MODULE Spec2Model ----
(***************************************************************************)
(* State-machine model of the recipe REST backend: the six model tables    *)
(* (recipes/models.py), the permission classes (recipes/permissions.py)    *)
(* and the viewset handlers (recipes/views.py).  One action per handler;   *)
(* every action records the request it served and the response it gave.   *)
(* Text values are sequences of one-character strings so that lower(),     *)
(* strip() and slugify() are computed, not assumed.                        *)
(*                                                                         *)
(* In the specifications of the single resources every handler runs as     *)
(* one atomic step, so requests are served one after the other and the     *)
(* guards the database adds below the views (unique_together on Review and *)
(* Rating, the foreign keys, on_delete=PROTECT on Recipe.category) never   *)
(* fire.  The section "Interleaved requests" splits the handlers that look *)
(* the tables up before they write: a request that passed its lookup waits *)
(* in `pending` while other requests are served, and its write then meets  *)
(* the database's guards.                                                  *)
(***************************************************************************)
EXTENDS Integers, Sequences, FiniteSets, TLC

VARIABLES categories, recipes, ingredients, images, reviews, ratings,
          nextId, request, response, pending

tables == <<categories, recipes, ingredients, images, reviews, ratings, nextId>>
vars == <<categories, recipes, ingredients, images, reviews, ratings, nextId,
          request, response, pending>>

(***************************************************************************)
(* Bounds of the model: the auto-increment primary keys stop here.         *)
(***************************************************************************)
MaxCategoryId == 2
MaxRecipeId == 2
MaxIngredientId == 2
MaxImageId == 4
MaxReviewId == 2
MaxRatingId == 2

(***************************************************************************)
(* Users.  The test fixtures create one superuser and two ordinary users;  *)
(* a request without credentials is made by the anonymous user.            *)
(***************************************************************************)
Admin == "admin"
User1 == "user1"
User2 == "user2"
Anonymous == "anonymous"
Users == {Admin, User1, User2}
Requesters == Users \cup {Anonymous}
\* The clients of the nested resources: a recipe author, another user, and
\* a client without credentials.
NestedRequesters == {User1, User2, Anonymous}

is_superuser(u) == u = Admin
is_authenticated(u) == u \in Users

SAFE_METHODS == {"GET", "HEAD", "OPTIONS"}

(***************************************************************************)
(* Text: str.lower(), the serializer CharField's strip(), django slugify.  *)
(***************************************************************************)
UpperToLower == [A |-> "a", B |-> "b", C |-> "c", D |-> "d", E |-> "e", F |-> "f",
                 G |-> "g", H |-> "h", I |-> "i", J |-> "j", K |-> "k", L |-> "l",
                 M |-> "m", N |-> "n", O |-> "o", P |-> "p", Q |-> "q", R |-> "r",
                 S |-> "s", T |-> "t", U |-> "u", V |-> "v", W |-> "w", X |-> "x",
                 Y |-> "y", Z |-> "z"]
LowerLetters == {UpperToLower[c] : c \in DOMAIN UpperToLower}
Digits == {"0", "1", "2", "3", "4", "5", "6", "7", "8", "9"}
Whitespace == {" "}

LowerChar(c) == IF c \in DOMAIN UpperToLower THEN UpperToLower[c] ELSE c
Lower(s) == [i \in 1..Len(s) |-> LowerChar(s[i])]

RECURSIVE LStrip(_, _)
LStrip(s, drop) ==
    IF s # <<>> /\ Head(s) \in drop THEN LStrip(Tail(s), drop) ELSE s
RECURSIVE RStrip(_, _)
RStrip(s, drop) ==
    IF s # <<>> /\ s[Len(s)] \in drop
    THEN RStrip(SubSeq(s, 1, Len(s) - 1), drop) ELSE s
Strip(s) == RStrip(LStrip(s, Whitespace), Whitespace)

IsWordChar(c) == c \in LowerLetters \cup DOMAIN UpperToLower \cup Digits \cup {"_"}
IsSlugKept(c) == IsWordChar(c) \/ c \in Whitespace \/ c = "-"
IsSeparator(c) == c \in Whitespace \/ c = "-"

\* re.sub(r'[-\s]+', '-', value): every run of separators becomes one hyphen.
RECURSIVE CollapseSeparators(_)
CollapseSeparators(s) ==
    IF s = <<>> THEN <<>>
    ELSE IF IsSeparator(Head(s))
         THEN <<"-">> \o CollapseSeparators(LStrip(s, Whitespace \cup {"-"}))
         ELSE <<Head(s)>> \o CollapseSeparators(Tail(s))

slugify(s) ==
    LET lowered == Lower(s)
        kept == SelectSeq(lowered, IsSlugKept)
        collapsed == CollapseSeparators(kept)
    IN  RStrip(LStrip(collapsed, {"-", "_"}), {"-", "_"})

IsValidSlug(s) == \A i \in 1..Len(s) : IsWordChar(s[i]) \/ s[i] = "-"

(***************************************************************************)
(* Responses.                                                              *)
(***************************************************************************)
HTTP_200_OK == 200
HTTP_201_CREATED == 201
HTTP_204_NO_CONTENT == 204
HTTP_400_BAD_REQUEST == 400
HTTP_401_UNAUTHORIZED == 401
HTTP_403_FORBIDDEN == 403
HTTP_404_NOT_FOUND == 404
HTTP_405_METHOD_NOT_ALLOWED == 405
HTTP_409_CONFLICT == 409
HTTP_500_INTERNAL_SERVER_ERROR == 500

FieldErrors == "field errors"
NotAuthenticatedDetail == "Authentication credentials were not provided."
PermissionDeniedDetail == "You do not have permission to perform this action."
ObjectNotFoundDetail == "Not found."
RecipeNotFoundDetail == "Recipe with id <id> was not found."
CategoryHasRecipesDetail == "Category has recipes associated with it, cannot be deleted."
OneReviewDetail == "User can only have one review for each recipe."
OneRatingDetail == "User can only have one rating for each recipe."
IngredientExistsDetail == "Ingredient with name '<name>' already exists for this recipe."
TooManyImagesDetail == "More than 3 images cannot be posted for one recipe."

\* The response records which view and method it answers; data is the
\* payload of the routes whose payload is modelled, <<>> elsewhere.
RespondData(status, detail, data) ==
    response' = [status |-> status, detail |-> detail, data |-> data,
                 view |-> request.view, method |-> request.method]

Respond(status, detail) == RespondData(status, detail, <<>>)

\* A request is refused by a permission class: 401 without credentials,
\* 403 with them.
permission_denied(u) ==
    IF is_authenticated(u)
    THEN Respond(HTTP_403_FORBIDDEN, PermissionDeniedDetail)
    ELSE Respond(HTTP_401_UNAUTHORIZED, NotAuthenticatedDetail)

NoRequest == [view |-> "none", method |-> "none", user |-> "anonymous",
              recipe_pk |-> 0, pk |-> 0, body |-> <<>>]
NoResponse == [status |-> 0, detail |-> "", data |-> <<>>,
               view |-> "none", method |-> "none"]

\* The handler takes the request in flight, which is this one.
Received(view, method, u, recipe_pk, pk, body) ==
    /\ request = [view |-> view, method |-> method, user |-> u,
                  recipe_pk |-> recipe_pk, pk |-> pk, body |-> body]
    /\ request' = NoRequest
    /\ UNCHANGED pending

Has(body, field) == field \in DOMAIN body

(***************************************************************************)
(* Permission classes.                                                     *)
(***************************************************************************)
RecipeExists(recipe_pk) == \E r \in recipes : r.id = recipe_pk
RecipeById(recipe_pk) == CHOOSE r \in recipes : r.id = recipe_pk

\* Variant: any logged-in user is let through.
IsAdminOrReadOnly_has_permission_AnyUser(method, u) ==
    IF method \in SAFE_METHODS THEN TRUE ELSE is_authenticated(u)

IsAdminOrReadOnly_has_permission(method, u) ==
    IF method \in SAFE_METHODS THEN TRUE ELSE is_superuser(u)

\* Variant: the view-level check lets every client through.
IsAuthenticatedOrReadOnly_has_permission_Open(method, u) == TRUE

IsAuthenticatedOrReadOnly_has_permission(method, u) ==
    method \in SAFE_METHODS \/ is_authenticated(u)

\* Variant: the object check always passes.
IsAuthorOrReadOnly_has_object_permission_Skipped(method, u, obj) == TRUE

IsAuthorOrReadOnly_has_object_permission(method, u, obj) ==
    IF method \in SAFE_METHODS THEN TRUE ELSE obj.author = u

\* Variant: credentials are asked for whatever the method.
NestedIsAuthenticatedOrReadOnly_has_permission_NoSafeBranch(method, u) ==
    is_authenticated(u)

\* Variant: the credentials are not looked at once the recipe was found.
NestedIsAuthenticatedOrReadOnly_has_permission_Open(method, u) == TRUE

\* Called only after the recipe named in the URL was found.
NestedIsAuthenticatedOrReadOnly_has_permission(method, u) ==
    IF method \in SAFE_METHODS THEN TRUE ELSE is_authenticated(u)

\* Variant: compares with the author of the recipe, not of the object.
NestedIsAuthorOrReadOnly_has_object_permission_RecipeAuthor(method, u, obj) ==
    IF method \in SAFE_METHODS THEN TRUE ELSE RecipeById(obj.recipe).author = u

NestedIsAuthorOrReadOnly_has_object_permission(method, u, obj) ==
    IF method \in SAFE_METHODS THEN TRUE ELSE obj.author = u

\* Variant: any logged-in user is let through.
IsRecipeAuthorOrReadOnly_has_permission_AnyUser(method, u, recipe_pk) ==
    IF method \in SAFE_METHODS THEN TRUE ELSE is_authenticated(u)

\* Called only after the recipe named in the URL was found.
IsRecipeAuthorOrReadOnly_has_permission(method, u, recipe_pk) ==
    IF method \in SAFE_METHODS THEN TRUE ELSE RecipeById(recipe_pk).author = u

IsRecipeAuthorOrReadOnly_has_object_permission(method, u, obj) ==
    IF method \in SAFE_METHODS THEN TRUE ELSE RecipeById(obj.recipe).author = u

(***************************************************************************)
(* Initial state: the users exist, every table is empty.                   *)
(***************************************************************************)
Init ==
    /\ categories = {}
    /\ recipes = {}
    /\ ingredients = {}
    /\ images = {}
    /\ reviews = {}
    /\ ratings = {}
    /\ nextId = [category |-> 1, recipe |-> 1, ingredient |-> 1,
                 image |-> 1, review |-> 1, rating |-> 1]
    /\ request = NoRequest
    /\ response = NoResponse
    /\ pending = <<>>

(***************************************************************************)
(* CategoryViewSet.                                                        *)
(***************************************************************************)
CategoryExists(pk) == \E c \in categories : c.id = pk
CategoryById(pk) == CHOOSE c \in categories : c.id = pk

\* CategorySerializer: title and slug are required (unless partial), trimmed,
\* not blank and unique among the other categories; slug is a valid slug.
CategorySerializer_validated(body) ==
    [f \in DOMAIN body \cap {"title", "slug"} |-> Strip(body[f])]

\* Variant: the slug is not compared with the slugs of the other categories.
CategorySerializer_is_valid_SlugNotCompared(body, instance_id, partial) ==
    LET data == CategorySerializer_validated(body) IN
    /\ partial \/ (Has(body, "title") /\ Has(body, "slug"))
    /\ Has(data, "title") =>
          /\ data.title # <<>>
          /\ ~\E c \in categories : c.title = data.title /\ c.id # instance_id
    /\ Has(data, "slug") =>
          /\ data.slug # <<>>
          /\ IsValidSlug(data.slug)

CategorySerializer_is_valid(body, instance_id, partial) ==
    LET data == CategorySerializer_validated(body) IN
    /\ partial \/ (Has(body, "title") /\ Has(body, "slug"))
    /\ Has(data, "title") =>
          /\ data.title # <<>>
          /\ ~\E c \in categories : c.title = data.title /\ c.id # instance_id
    /\ Has(data, "slug") =>
          /\ data.slug # <<>>
          /\ IsValidSlug(data.slug)
          /\ ~\E c \in categories : c.slug = data.slug /\ c.id # instance_id

CategoryViewSet_create(u, body) ==
    /\ Received("category", "POST", u, 0, 0, body)
    /\ IF ~IsAdminOrReadOnly_has_permission("POST", u)
       THEN permission_denied(u) /\ UNCHANGED tables
       ELSE IF ~CategorySerializer_is_valid(body, 0, FALSE)
       THEN Respond(HTTP_400_BAD_REQUEST, FieldErrors) /\ UNCHANGED tables
       ELSE LET data == CategorySerializer_validated(body) IN
            /\ nextId.category <= MaxCategoryId
            /\ categories' = categories \cup
                  {[id |-> nextId.category, title |-> data.title, slug |-> data.slug]}
            /\ nextId' = [nextId EXCEPT !.category = @ + 1]
            /\ Respond(HTTP_201_CREATED, "")
            /\ UNCHANGED <<recipes, ingredients, images, reviews, ratings>>

\* update (PUT) and partial_update (PATCH).
CategoryViewSet_update(method, u, pk, body) ==
    /\ Received("category", method, u, 0, pk, body)
    /\ IF ~IsAdminOrReadOnly_has_permission(method, u)
       THEN permission_denied(u) /\ UNCHANGED tables
       ELSE IF ~CategoryExists(pk)
       THEN Respond(HTTP_404_NOT_FOUND, ObjectNotFoundDetail) /\ UNCHANGED tables
       ELSE IF ~CategorySerializer_is_valid(body, pk, method = "PATCH")
       THEN Respond(HTTP_400_BAD_REQUEST, FieldErrors) /\ UNCHANGED tables
       ELSE LET data == CategorySerializer_validated(body)
                old == CategoryById(pk)
                new == [id |-> pk,
                        title |-> IF Has(data, "title") THEN data.title ELSE old.title,
                        slug |-> IF Has(data, "slug") THEN data.slug ELSE old.slug]
            IN  /\ categories' = (categories \ {old}) \cup {new}
                /\ Respond(HTTP_200_OK, "")
                /\ UNCHANGED <<recipes, ingredients, images, reviews, ratings, nextId>>

\* Variant: the lookup filters on the recipe's own id.
CategoryHasRecipes_WrongField(pk) == \E r \in recipes : r.id = pk /\ r.category = 0

\* The lookup destroy() makes before it deletes.
CategoryHasRecipes(pk) == \E r \in recipes : r.category = pk

CategoryViewSet_destroy(u, pk) ==
    /\ Received("category", "DELETE", u, 0, pk, <<>>)
    /\ IF ~IsAdminOrReadOnly_has_permission("DELETE", u)
       THEN permission_denied(u) /\ UNCHANGED tables
       ELSE IF CategoryHasRecipes(pk)
       THEN Respond(HTTP_409_CONFLICT, CategoryHasRecipesDetail) /\ UNCHANGED tables
       ELSE IF ~CategoryExists(pk)
       THEN Respond(HTTP_404_NOT_FOUND, ObjectNotFoundDetail) /\ UNCHANGED tables
       ELSE /\ categories' = categories \ {CategoryById(pk)}
            /\ Respond(HTTP_204_NO_CONTENT, "")
            /\ UNCHANGED <<recipes, ingredients, images, reviews, ratings, nextId>>

(***************************************************************************)
(* RecipeViewSet.                                                          *)
(***************************************************************************)
\* CreateUpdateRecipeSerializer: title, instructions and category are writable;
\* category is a hyperlink that must resolve to a stored category.
RecipeSerializer_validated(body) ==
    [f \in DOMAIN body \cap {"title", "instructions", "category"} |->
        IF f = "category" THEN body[f] ELSE Strip(body[f])]

RecipeSerializer_is_valid(body, partial) ==
    LET data == RecipeSerializer_validated(body) IN
    /\ partial \/ (Has(body, "title") /\ Has(body, "instructions")
                    /\ Has(body, "category"))
    /\ Has(data, "title") => data.title # <<>>
    /\ Has(data, "instructions") => data.instructions # <<>>
    /\ Has(data, "category") => CategoryExists(data.category)

\* Variant: the slug is computed only for a recipe that has none yet.
Recipe_save_OnlyWhenEmpty(row) ==
    IF row.slug = <<>> THEN [row EXCEPT !.slug = slugify(row.title)] ELSE row

\* Recipe.save(): the slug is recomputed from the title on every save.
Recipe_save(row) == [row EXCEPT !.slug = slugify(row.title)]

RecipeViewSet_create(u, body) ==
    /\ Received("recipe", "POST", u, 0, 0, body)
    /\ IF ~IsAuthenticatedOrReadOnly_has_permission("POST", u)
       THEN permission_denied(u) /\ UNCHANGED tables
       ELSE IF ~RecipeSerializer_is_valid(body, FALSE)
       THEN Respond(HTTP_400_BAD_REQUEST, FieldErrors) /\ UNCHANGED tables
       ELSE LET data == RecipeSerializer_validated(body) IN
            /\ nextId.recipe <= MaxRecipeId
            /\ recipes' = recipes \cup
                  {Recipe_save([id |-> nextId.recipe, author |-> u,
                                title |-> data.title, slug |-> <<>>,
                                instructions |-> data.instructions,
                                category |-> data.category])}
            /\ nextId' = [nextId EXCEPT !.recipe = @ + 1]
            /\ Respond(HTTP_201_CREATED, "")
            /\ UNCHANGED <<categories, ingredients, images, reviews, ratings>>

RecipeViewSet_update(method, u, pk, body) ==
    /\ Received("recipe", method, u, 0, pk, body)
    /\ IF ~IsAuthenticatedOrReadOnly_has_permission(method, u)
       THEN permission_denied(u) /\ UNCHANGED tables
       ELSE IF ~RecipeExists(pk)
       THEN Respond(HTTP_404_NOT_FOUND, ObjectNotFoundDetail) /\ UNCHANGED tables
       ELSE IF ~IsAuthorOrReadOnly_has_object_permission(method, u, RecipeById(pk))
       THEN permission_denied(u) /\ UNCHANGED tables
       ELSE IF ~RecipeSerializer_is_valid(body, method = "PATCH")
       THEN Respond(HTTP_400_BAD_REQUEST, FieldErrors) /\ UNCHANGED tables
       ELSE LET data == RecipeSerializer_validated(body)
                old == RecipeById(pk)
                new == [old EXCEPT
                          !.title = IF Has(data, "title") THEN data.title ELSE @,
                          !.instructions = IF Has(data, "instructions")
                                           THEN data.instructions ELSE @,
                          !.category = IF Has(data, "category")
                                       THEN data.category ELSE @]
            IN  /\ recipes' = (recipes \ {old}) \cup {Recipe_save(new)}
                /\ Respond(HTTP_200_OK, "")
                /\ UNCHANGED <<categories, ingredients, images, reviews, ratings, nextId>>

\* on_delete=CASCADE: the recipe's ingredients, images, reviews and ratings
\* are deleted with it.
\* Variant: the reviews and ratings of the recipe are left behind.
RecipeViewSet_destroy_OpinionsKept(u, pk) ==
    /\ Received("recipe", "DELETE", u, 0, pk, <<>>)
    /\ IF ~IsAuthenticatedOrReadOnly_has_permission("DELETE", u)
       THEN permission_denied(u) /\ UNCHANGED tables
       ELSE IF ~RecipeExists(pk)
       THEN Respond(HTTP_404_NOT_FOUND, ObjectNotFoundDetail) /\ UNCHANGED tables
       ELSE IF ~IsAuthorOrReadOnly_has_object_permission("DELETE", u, RecipeById(pk))
       THEN permission_denied(u) /\ UNCHANGED tables
       ELSE /\ recipes' = recipes \ {RecipeById(pk)}
            /\ ingredients' = {x \in ingredients : x.recipe # pk}
            /\ images' = {x \in images : x.recipe # pk}
            /\ Respond(HTTP_204_NO_CONTENT, "")
            /\ UNCHANGED <<categories, reviews, ratings, nextId>>

RecipeViewSet_destroy(u, pk) ==
    /\ Received("recipe", "DELETE", u, 0, pk, <<>>)
    /\ IF ~IsAuthenticatedOrReadOnly_has_permission("DELETE", u)
       THEN permission_denied(u) /\ UNCHANGED tables
       ELSE IF ~RecipeExists(pk)
       THEN Respond(HTTP_404_NOT_FOUND, ObjectNotFoundDetail) /\ UNCHANGED tables
       ELSE IF ~IsAuthorOrReadOnly_has_object_permission("DELETE", u, RecipeById(pk))
       THEN permission_denied(u) /\ UNCHANGED tables
       ELSE /\ recipes' = recipes \ {RecipeById(pk)}
            /\ ingredients' = {x \in ingredients : x.recipe # pk}
            /\ images' = {x \in images : x.recipe # pk}
            /\ reviews' = {x \in reviews : x.recipe # pk}
            /\ ratings' = {x \in ratings : x.recipe # pk}
            /\ Respond(HTTP_204_NO_CONTENT, "")
            /\ UNCHANGED <<categories, nextId>>

(***************************************************************************)
(* IngredientViewSet.                                                      *)
(***************************************************************************)
UNITS_OF_MEASUREMENT == {"ml", "mg", "oz", "l", "gm"}
NullUnits == "null"
MinQuantity == 0

\* get_queryset() then the pk lookup of get_object().
\* Variant: the queryset is not filtered on the recipe of the URL.
IngredientInRecipe_AnyRecipe(recipe_pk, pk) == \E x \in ingredients : x.id = pk

IngredientInRecipe(recipe_pk, pk) ==
    \E x \in ingredients : x.id = pk /\ x.recipe = recipe_pk
IngredientById(pk) == CHOOSE x \in ingredients : x.id = pk

\* CreateUpdateIngredientSerializer: name (trimmed, not blank) and quantity
\* (not below the model's MinValueValidator) are required unless partial;
\* units_of_measurement is optional and one of the choices.
IngredientSerializer_validated(body) ==
    [f \in DOMAIN body \cap {"name", "quantity", "units_of_measurement"} |->
        IF f = "name" THEN Strip(body[f]) ELSE body[f]]

IngredientSerializer_is_valid(body, partial) ==
    LET data == IngredientSerializer_validated(body) IN
    /\ partial \/ (Has(body, "name") /\ Has(body, "quantity"))
    /\ Has(data, "name") => data.name # <<>>
    /\ Has(data, "quantity") => data.quantity >= MinQuantity
    /\ Has(data, "units_of_measurement") =>
          data.units_of_measurement \in UNITS_OF_MEASUREMENT \cup {NullUnits}

\* Variant: the slug is computed but the name is stored as sent.
Ingredient_save_NameKept(row) == [row EXCEPT !.slug = slugify(row.name)]

\* Ingredient.save(): slug from the name, then the name lower-cased.
Ingredient_save(row) ==
    [row EXCEPT !.slug = slugify(row.name), !.name = Lower(row.name)]

\* The duplicate lookup of perform_create / perform_update: the name as sent
\* in the request, lower-cased, compared with the stored names of the recipe.
IngredientsWithName(ingredient_name, recipe_pk) ==
    {x \in ingredients : x.name = ingredient_name /\ x.recipe = recipe_pk}

\* QuerySet.first() on rows that tie in the ordering: the id of any one of
\* them, 0 (None) when there is no row.
FirstOf(rows) == IF rows = {} THEN {0} ELSE {x.id : x \in rows}

IngredientViewSet_create(u, recipe_pk, body) ==
    /\ Received("ingredient", "POST", u, recipe_pk, 0, body)
    /\ IF ~RecipeExists(recipe_pk)
       THEN Respond(HTTP_404_NOT_FOUND, RecipeNotFoundDetail) /\ UNCHANGED tables
       ELSE IF ~IsRecipeAuthorOrReadOnly_has_permission("POST", u, recipe_pk)
       THEN permission_denied(u) /\ UNCHANGED tables
       ELSE IF ~IngredientSerializer_is_valid(body, FALSE)
       THEN Respond(HTTP_400_BAD_REQUEST, FieldErrors) /\ UNCHANGED tables
       ELSE IF IngredientsWithName(Lower(body.name), recipe_pk) # {}
       THEN Respond(HTTP_400_BAD_REQUEST, IngredientExistsDetail) /\ UNCHANGED tables
       ELSE LET data == IngredientSerializer_validated(body) IN
            /\ nextId.ingredient <= MaxIngredientId
            /\ ingredients' = ingredients \cup
                  {Ingredient_save(
                     [id |-> nextId.ingredient, recipe |-> recipe_pk,
                      name |-> data.name, slug |-> <<>>,
                      quantity |-> data.quantity,
                      units_of_measurement |->
                          IF Has(data, "units_of_measurement")
                          THEN data.units_of_measurement ELSE NullUnits])}
            /\ nextId' = [nextId EXCEPT !.ingredient = @ + 1]
            /\ Respond(HTTP_201_CREATED, "")
            /\ UNCHANGED <<categories, recipes, images, reviews, ratings>>

\* perform_update reads request.data['name'] even when the request is a
\* PATCH that does not carry it (KeyError, answered 500).
IngredientViewSet_update(method, u, recipe_pk, pk, body) ==
    /\ Received("ingredient", method, u, recipe_pk, pk, body)
    /\ IF ~RecipeExists(recipe_pk)
       THEN Respond(HTTP_404_NOT_FOUND, RecipeNotFoundDetail) /\ UNCHANGED tables
       ELSE IF ~IsRecipeAuthorOrReadOnly_has_permission(method, u, recipe_pk)
       THEN permission_denied(u) /\ UNCHANGED tables
       ELSE IF ~IngredientInRecipe(recipe_pk, pk)
       THEN Respond(HTTP_404_NOT_FOUND, ObjectNotFoundDetail) /\ UNCHANGED tables
       ELSE IF ~IsRecipeAuthorOrReadOnly_has_object_permission(method, u, IngredientById(pk))
       THEN permission_denied(u) /\ UNCHANGED tables
       ELSE IF ~IngredientSerializer_is_valid(body, method = "PATCH")
       THEN Respond(HTTP_400_BAD_REQUEST, FieldErrors) /\ UNCHANGED tables
       ELSE IF ~Has(body, "name")
       THEN Respond(HTTP_500_INTERNAL_SERVER_ERROR, "KeyError") /\ UNCHANGED tables
       ELSE \E ingredient_with_name \in FirstOf(IngredientsWithName(Lower(body.name), recipe_pk)) :
            IF ingredient_with_name # 0 /\ ingredient_with_name # pk
       THEN Respond(HTTP_400_BAD_REQUEST, IngredientExistsDetail) /\ UNCHANGED tables
       ELSE LET data == IngredientSerializer_validated(body)
                old == IngredientById(pk)
                new == [old EXCEPT
                          !.name = IF Has(data, "name") THEN data.name ELSE @,
                          !.quantity = IF Has(data, "quantity") THEN data.quantity ELSE @,
                          !.units_of_measurement =
                              IF Has(data, "units_of_measurement")
                              THEN data.units_of_measurement ELSE @]
            IN  /\ ingredients' = (ingredients \ {old}) \cup {Ingredient_save(new)}
                /\ Respond(HTTP_200_OK, "")
                /\ UNCHANGED <<categories, recipes, images, reviews, ratings, nextId>>

IngredientViewSet_destroy(u, recipe_pk, pk) ==
    /\ Received("ingredient", "DELETE", u, recipe_pk, pk, <<>>)
    /\ IF ~RecipeExists(recipe_pk)
       THEN Respond(HTTP_404_NOT_FOUND, RecipeNotFoundDetail) /\ UNCHANGED tables
       ELSE IF ~IsRecipeAuthorOrReadOnly_has_permission("DELETE", u, recipe_pk)
       THEN permission_denied(u) /\ UNCHANGED tables
       ELSE IF ~IngredientInRecipe(recipe_pk, pk)
       THEN Respond(HTTP_404_NOT_FOUND, ObjectNotFoundDetail) /\ UNCHANGED tables
       ELSE IF ~IsRecipeAuthorOrReadOnly_has_object_permission("DELETE", u, IngredientById(pk))
       THEN permission_denied(u) /\ UNCHANGED tables
       ELSE /\ ingredients' = ingredients \ {IngredientById(pk)}
            /\ Respond(HTTP_204_NO_CONTENT, "")
            /\ UNCHANGED <<categories, recipes, images, reviews, ratings, nextId>>

(***************************************************************************)
(* RecipeImageViewSet: list, retrieve, create and destroy only.            *)
(***************************************************************************)
max_number_of_images == 3
limit_mb == 5

ImageInRecipe(recipe_pk, pk) == \E x \in images : x.id = pk /\ x.recipe = recipe_pk
ImageById(pk) == CHOOSE x \in images : x.id = pk

\* validate_file_size: the uploaded file's size, in MB.
validate_file_size(image) == image <= limit_mb

RecipeImageSerializer_is_valid(body) ==
    Has(body, "image") /\ validate_file_size(body.image)

number_of_images(recipe_pk) == Cardinality({x \in images : x.recipe = recipe_pk})

\* Variant: off by one.
ImageLimitReached_OffByOne(recipe_pk) == number_of_images(recipe_pk) > max_number_of_images

\* The test perform_create makes before it saves.
ImageLimitReached(recipe_pk) == number_of_images(recipe_pk) = max_number_of_images

RecipeImageViewSet_create(u, recipe_pk, body) ==
    /\ Received("image", "POST", u, recipe_pk, 0, body)
    /\ IF ~RecipeExists(recipe_pk)
       THEN Respond(HTTP_404_NOT_FOUND, RecipeNotFoundDetail) /\ UNCHANGED tables
       ELSE IF ~IsRecipeAuthorOrReadOnly_has_permission("POST", u, recipe_pk)
       THEN permission_denied(u) /\ UNCHANGED tables
       ELSE IF ~RecipeImageSerializer_is_valid(body)
       THEN Respond(HTTP_400_BAD_REQUEST, FieldErrors) /\ UNCHANGED tables
       ELSE IF ImageLimitReached(recipe_pk)
       THEN Respond(HTTP_400_BAD_REQUEST, TooManyImagesDetail) /\ UNCHANGED tables
       ELSE /\ nextId.image <= MaxImageId
            /\ images' = images \cup {[id |-> nextId.image, recipe |-> recipe_pk]}
            /\ nextId' = [nextId EXCEPT !.image = @ + 1]
            /\ Respond(HTTP_201_CREATED, "")
            /\ UNCHANGED <<categories, recipes, ingredients, reviews, ratings>>

\* PUT and PATCH are not routed (no UpdateModelMixin); the permission check
\* still runs first.
RecipeImageViewSet_update(method, u, recipe_pk, pk, body) ==
    /\ Received("image", method, u, recipe_pk, pk, body)
    /\ UNCHANGED tables
    /\ IF ~RecipeExists(recipe_pk)
       THEN Respond(HTTP_404_NOT_FOUND, RecipeNotFoundDetail)
       ELSE IF ~IsRecipeAuthorOrReadOnly_has_permission(method, u, recipe_pk)
       THEN permission_denied(u)
       ELSE Respond(HTTP_405_METHOD_NOT_ALLOWED, "Method not allowed.")

RecipeImageViewSet_destroy(u, recipe_pk, pk) ==
    /\ Received("image", "DELETE", u, recipe_pk, pk, <<>>)
    /\ IF ~RecipeExists(recipe_pk)
       THEN Respond(HTTP_404_NOT_FOUND, RecipeNotFoundDetail) /\ UNCHANGED tables
       ELSE IF ~IsRecipeAuthorOrReadOnly_has_permission("DELETE", u, recipe_pk)
       THEN permission_denied(u) /\ UNCHANGED tables
       ELSE IF ~ImageInRecipe(recipe_pk, pk)
       THEN Respond(HTTP_404_NOT_FOUND, ObjectNotFoundDetail) /\ UNCHANGED tables
       ELSE IF ~IsRecipeAuthorOrReadOnly_has_object_permission("DELETE", u, ImageById(pk))
       THEN permission_denied(u) /\ UNCHANGED tables
       ELSE /\ images' = images \ {ImageById(pk)}
            /\ Respond(HTTP_204_NO_CONTENT, "")
            /\ UNCHANGED <<categories, recipes, ingredients, reviews, ratings, nextId>>

(***************************************************************************)
(* ReviewViewSet.                                                          *)
(***************************************************************************)
ReviewInRecipe(recipe_pk, pk) == \E x \in reviews : x.id = pk /\ x.recipe = recipe_pk
ReviewById(pk) == CHOOSE x \in reviews : x.id = pk

\* ReviewSerializer: content is the only writable field (trimmed, not blank).
ReviewSerializer_validated(body) ==
    [f \in DOMAIN body \cap {"content"} |-> Strip(body[f])]

ReviewSerializer_is_valid(body, partial) ==
    LET data == ReviewSerializer_validated(body) IN
    /\ partial \/ Has(body, "content")
    /\ Has(data, "content") => data.content # <<>>

\* Variant: the lookup filters on the author of the recipe.
ReviewOfUser_RecipeAuthor(user_pk, recipe_pk) ==
    {x \in reviews : x.recipe = recipe_pk /\ RecipeById(x.recipe).author = user_pk}

\* Variant: the lookup filters on the review's id instead of the recipe's.
ReviewOfUser_WrongField(user_pk, recipe_pk) ==
    {x \in reviews : x.author = user_pk /\ x.id = recipe_pk}

\* The lookup perform_create makes before it saves.
ReviewOfUser(user_pk, recipe_pk) ==
    {x \in reviews : x.author = user_pk /\ x.recipe = recipe_pk}

\* Variant: author and recipe are taken from the body when it carries them.
ReviewViewSet_create_FromBody(u, recipe_pk, body) ==
    /\ Received("review", "POST", u, recipe_pk, 0, body)
    /\ IF ~RecipeExists(recipe_pk)
       THEN Respond(HTTP_404_NOT_FOUND, RecipeNotFoundDetail) /\ UNCHANGED tables
       ELSE IF ~NestedIsAuthenticatedOrReadOnly_has_permission("POST", u)
       THEN permission_denied(u) /\ UNCHANGED tables
       ELSE IF ~ReviewSerializer_is_valid(body, FALSE)
       THEN Respond(HTTP_400_BAD_REQUEST, FieldErrors) /\ UNCHANGED tables
       ELSE IF ReviewOfUser(u, recipe_pk) # {}
       THEN Respond(HTTP_409_CONFLICT, OneReviewDetail) /\ UNCHANGED tables
       ELSE /\ nextId.review <= MaxReviewId
            /\ reviews' = reviews \cup
                  {[id |-> nextId.review,
                    recipe |-> IF Has(body, "recipe") THEN body.recipe ELSE recipe_pk,
                    author |-> IF Has(body, "author") THEN body.author ELSE u,
                    content |-> ReviewSerializer_validated(body).content]}
            /\ nextId' = [nextId EXCEPT !.review = @ + 1]
            /\ Respond(HTTP_201_CREATED, "")
            /\ UNCHANGED <<categories, recipes, ingredients, images, ratings>>

ReviewViewSet_create(u, recipe_pk, body) ==
    /\ Received("review", "POST", u, recipe_pk, 0, body)
    /\ IF ~RecipeExists(recipe_pk)
       THEN Respond(HTTP_404_NOT_FOUND, RecipeNotFoundDetail) /\ UNCHANGED tables
       ELSE IF ~NestedIsAuthenticatedOrReadOnly_has_permission("POST", u)
       THEN permission_denied(u) /\ UNCHANGED tables
       ELSE IF ~ReviewSerializer_is_valid(body, FALSE)
       THEN Respond(HTTP_400_BAD_REQUEST, FieldErrors) /\ UNCHANGED tables
       ELSE IF ReviewOfUser(u, recipe_pk) # {}
       THEN Respond(HTTP_409_CONFLICT, OneReviewDetail) /\ UNCHANGED tables
       ELSE /\ nextId.review <= MaxReviewId
            /\ reviews' = reviews \cup
                  {[id |-> nextId.review, recipe |-> recipe_pk, author |-> u,
                    content |-> ReviewSerializer_validated(body).content]}
            /\ nextId' = [nextId EXCEPT !.review = @ + 1]
            /\ Respond(HTTP_201_CREATED, "")
            /\ UNCHANGED <<categories, recipes, ingredients, images, ratings>>

\* Variant: author and recipe are writable fields of the serializer.
ReviewViewSet_update_OwnerWritable(method, u, recipe_pk, pk, body) ==
    /\ Received("review", method, u, recipe_pk, pk, body)
    /\ IF ~RecipeExists(recipe_pk)
       THEN Respond(HTTP_404_NOT_FOUND, RecipeNotFoundDetail) /\ UNCHANGED tables
       ELSE IF ~NestedIsAuthenticatedOrReadOnly_has_permission(method, u)
       THEN permission_denied(u) /\ UNCHANGED tables
       ELSE IF ~ReviewInRecipe(recipe_pk, pk)
       THEN Respond(HTTP_404_NOT_FOUND, ObjectNotFoundDetail) /\ UNCHANGED tables
       ELSE IF ~NestedIsAuthorOrReadOnly_has_object_permission(method, u, ReviewById(pk))
       THEN permission_denied(u) /\ UNCHANGED tables
       ELSE IF ~ReviewSerializer_is_valid(body, method = "PATCH")
       THEN Respond(HTTP_400_BAD_REQUEST, FieldErrors) /\ UNCHANGED tables
       ELSE LET data == ReviewSerializer_validated(body)
                old == ReviewById(pk)
                new == [old EXCEPT
                          !.content = IF Has(data, "content") THEN data.content ELSE @,
                          !.author = IF Has(body, "author") THEN body.author ELSE @,
                          !.recipe = IF Has(body, "recipe") THEN body.recipe ELSE @]
            IN  /\ reviews' = (reviews \ {old}) \cup {new}
                /\ Respond(HTTP_200_OK, "")
                /\ UNCHANGED <<categories, recipes, ingredients, images, ratings, nextId>>

ReviewViewSet_update(method, u, recipe_pk, pk, body) ==
    /\ Received("review", method, u, recipe_pk, pk, body)
    /\ IF ~RecipeExists(recipe_pk)
       THEN Respond(HTTP_404_NOT_FOUND, RecipeNotFoundDetail) /\ UNCHANGED tables
       ELSE IF ~NestedIsAuthenticatedOrReadOnly_has_permission(method, u)
       THEN permission_denied(u) /\ UNCHANGED tables
       ELSE IF ~ReviewInRecipe(recipe_pk, pk)
       THEN Respond(HTTP_404_NOT_FOUND, ObjectNotFoundDetail) /\ UNCHANGED tables
       ELSE IF ~NestedIsAuthorOrReadOnly_has_object_permission(method, u, ReviewById(pk))
       THEN permission_denied(u) /\ UNCHANGED tables
       ELSE IF ~ReviewSerializer_is_valid(body, method = "PATCH")
       THEN Respond(HTTP_400_BAD_REQUEST, FieldErrors) /\ UNCHANGED tables
       ELSE LET data == ReviewSerializer_validated(body)
                old == ReviewById(pk)
                new == [old EXCEPT
                          !.content = IF Has(data, "content") THEN data.content ELSE @]
            IN  /\ reviews' = (reviews \ {old}) \cup {new}
                /\ Respond(HTTP_200_OK, "")
                /\ UNCHANGED <<categories, recipes, ingredients, images, ratings, nextId>>

\* Variant: the credentials are looked at before the recipe.
ReviewViewSet_destroy_PermissionFirst(u, recipe_pk, pk) ==
    /\ Received("review", "DELETE", u, recipe_pk, pk, <<>>)
    /\ IF ~NestedIsAuthenticatedOrReadOnly_has_permission("DELETE", u)
       THEN permission_denied(u) /\ UNCHANGED tables
       ELSE IF ~RecipeExists(recipe_pk)
       THEN Respond(HTTP_404_NOT_FOUND, RecipeNotFoundDetail) /\ UNCHANGED tables
       ELSE IF ~ReviewInRecipe(recipe_pk, pk)
       THEN Respond(HTTP_404_NOT_FOUND, ObjectNotFoundDetail) /\ UNCHANGED tables
       ELSE IF ~NestedIsAuthorOrReadOnly_has_object_permission("DELETE", u, ReviewById(pk))
       THEN permission_denied(u) /\ UNCHANGED tables
       ELSE /\ reviews' = reviews \ {ReviewById(pk)}
            /\ Respond(HTTP_204_NO_CONTENT, "")
            /\ UNCHANGED <<categories, recipes, ingredients, images, ratings, nextId>>

ReviewViewSet_destroy(u, recipe_pk, pk) ==
    /\ Received("review", "DELETE", u, recipe_pk, pk, <<>>)
    /\ IF ~RecipeExists(recipe_pk)
       THEN Respond(HTTP_404_NOT_FOUND, RecipeNotFoundDetail) /\ UNCHANGED tables
       ELSE IF ~NestedIsAuthenticatedOrReadOnly_has_permission("DELETE", u)
       THEN permission_denied(u) /\ UNCHANGED tables
       ELSE IF ~ReviewInRecipe(recipe_pk, pk)
       THEN Respond(HTTP_404_NOT_FOUND, ObjectNotFoundDetail) /\ UNCHANGED tables
       ELSE IF ~NestedIsAuthorOrReadOnly_has_object_permission("DELETE", u, ReviewById(pk))
       THEN permission_denied(u) /\ UNCHANGED tables
       ELSE /\ reviews' = reviews \ {ReviewById(pk)}
            /\ Respond(HTTP_204_NO_CONTENT, "")
            /\ UNCHANGED <<categories, recipes, ingredients, images, ratings, nextId>>

(***************************************************************************)
(* RatingViewSet.                                                          *)
(***************************************************************************)
\* Variant: the choices run one past the top of the scale.
rating_choices_UpToEleven == 0..11

rating_choices == 0..10

RatingInRecipe(recipe_pk, pk) == \E x \in ratings : x.id = pk /\ x.recipe = recipe_pk
RatingById(pk) == CHOOSE x \in ratings : x.id = pk

\* RatingSerializer: value is the only writable field, one of the choices.
RatingSerializer_is_valid(body, partial) ==
    /\ partial \/ Has(body, "value")
    /\ Has(body, "value") => body.value \in rating_choices

\* Variant: the lookup filters on the rating's id instead of the recipe's.
RatingOfUser_WrongField(user_pk, recipe_pk) ==
    {x \in ratings : x.author = user_pk /\ x.id = recipe_pk}

\* The lookup perform_create makes before it saves.
RatingOfUser(user_pk, recipe_pk) ==
    {x \in ratings : x.author = user_pk /\ x.recipe = recipe_pk}

RatingViewSet_create(u, recipe_pk, body) ==
    /\ Received("rating", "POST", u, recipe_pk, 0, body)
    /\ IF ~RecipeExists(recipe_pk)
       THEN Respond(HTTP_404_NOT_FOUND, RecipeNotFoundDetail) /\ UNCHANGED tables
       ELSE IF ~NestedIsAuthenticatedOrReadOnly_has_permission("POST", u)
       THEN permission_denied(u) /\ UNCHANGED tables
       ELSE IF ~RatingSerializer_is_valid(body, FALSE)
       THEN Respond(HTTP_400_BAD_REQUEST, FieldErrors) /\ UNCHANGED tables
       ELSE IF RatingOfUser(u, recipe_pk) # {}
       THEN Respond(HTTP_409_CONFLICT, OneRatingDetail) /\ UNCHANGED tables
       ELSE /\ nextId.rating <= MaxRatingId
            /\ ratings' = ratings \cup
                  {[id |-> nextId.rating, recipe |-> recipe_pk, author |-> u,
                    value |-> body.value]}
            /\ nextId' = [nextId EXCEPT !.rating = @ + 1]
            /\ Respond(HTTP_201_CREATED, "")
            /\ UNCHANGED <<categories, recipes, ingredients, images, reviews>>

RatingViewSet_update(method, u, recipe_pk, pk, body) ==
    /\ Received("rating", method, u, recipe_pk, pk, body)
    /\ IF ~RecipeExists(recipe_pk)
       THEN Respond(HTTP_404_NOT_FOUND, RecipeNotFoundDetail) /\ UNCHANGED tables
       ELSE IF ~NestedIsAuthenticatedOrReadOnly_has_permission(method, u)
       THEN permission_denied(u) /\ UNCHANGED tables
       ELSE IF ~RatingInRecipe(recipe_pk, pk)
       THEN Respond(HTTP_404_NOT_FOUND, ObjectNotFoundDetail) /\ UNCHANGED tables
       ELSE IF ~NestedIsAuthorOrReadOnly_has_object_permission(method, u, RatingById(pk))
       THEN permission_denied(u) /\ UNCHANGED tables
       ELSE IF ~RatingSerializer_is_valid(body, method = "PATCH")
       THEN Respond(HTTP_400_BAD_REQUEST, FieldErrors) /\ UNCHANGED tables
       ELSE LET old == RatingById(pk)
                new == [old EXCEPT
                          !.value = IF Has(body, "value") THEN body.value ELSE @]
            IN  /\ ratings' = (ratings \ {old}) \cup {new}
                /\ Respond(HTTP_200_OK, "")
                /\ UNCHANGED <<categories, recipes, ingredients, images, reviews, nextId>>

RatingViewSet_destroy(u, recipe_pk, pk) ==
    /\ Received("rating", "DELETE", u, recipe_pk, pk, <<>>)
    /\ IF ~RecipeExists(recipe_pk)
       THEN Respond(HTTP_404_NOT_FOUND, RecipeNotFoundDetail) /\ UNCHANGED tables
       ELSE IF ~NestedIsAuthenticatedOrReadOnly_has_permission("DELETE", u)
       THEN permission_denied(u) /\ UNCHANGED tables
       ELSE IF ~RatingInRecipe(recipe_pk, pk)
       THEN Respond(HTTP_404_NOT_FOUND, ObjectNotFoundDetail) /\ UNCHANGED tables
       ELSE IF ~NestedIsAuthorOrReadOnly_has_object_permission("DELETE", u, RatingById(pk))
       THEN permission_denied(u) /\ UNCHANGED tables
       ELSE /\ ratings' = ratings \ {RatingById(pk)}
            /\ Respond(HTTP_204_NO_CONTENT, "")
            /\ UNCHANGED <<categories, recipes, ingredients, images, reviews, nextId>>

(***************************************************************************)
(* Read-only routes.  list(), retrieve() and the framework's options() of  *)
(* each viewset: pk = 0 addresses the list route; HEAD is served by the    *)
(* GET handler; options() describes the route without looking the object   *)
(* up.  Nothing is written.                                                *)
(***************************************************************************)
ListRetrieve(method, pk, exists) ==
    IF method # "OPTIONS" /\ pk # 0 /\ ~exists
    THEN Respond(HTTP_404_NOT_FOUND, ObjectNotFoundDetail)
    ELSE Respond(HTTP_200_OK, "")

CategoryViewSet_retrieve(method, u, pk) ==
    /\ Received("category", method, u, 0, pk, <<>>)
    /\ UNCHANGED tables
    /\ IF ~IsAdminOrReadOnly_has_permission(method, u)
       THEN permission_denied(u)
       ELSE ListRetrieve(method, pk, CategoryExists(pk))

RecipeViewSet_retrieve(method, u, pk) ==
    /\ Received("recipe", method, u, 0, pk, <<>>)
    /\ UNCHANGED tables
    /\ IF ~IsAuthenticatedOrReadOnly_has_permission(method, u)
       THEN permission_denied(u)
       ELSE IF /\ method # "OPTIONS" /\ pk # 0 /\ RecipeExists(pk)
               /\ ~IsAuthorOrReadOnly_has_object_permission(method, u, RecipeById(pk))
       THEN permission_denied(u)
       ELSE ListRetrieve(method, pk, RecipeExists(pk))

IngredientViewSet_retrieve(method, u, recipe_pk, pk) ==
    /\ Received("ingredient", method, u, recipe_pk, pk, <<>>)
    /\ UNCHANGED tables
    /\ IF ~RecipeExists(recipe_pk)
       THEN Respond(HTTP_404_NOT_FOUND, RecipeNotFoundDetail)
       ELSE IF ~IsRecipeAuthorOrReadOnly_has_permission(method, u, recipe_pk)
       THEN permission_denied(u)
       ELSE IF /\ method # "OPTIONS" /\ pk # 0 /\ IngredientInRecipe(recipe_pk, pk)
               /\ ~IsRecipeAuthorOrReadOnly_has_object_permission(method, u,
                                                                   IngredientById(pk))
       THEN permission_denied(u)
       ELSE ListRetrieve(method, pk, IngredientInRecipe(recipe_pk, pk))

RecipeImageViewSet_retrieve(method, u, recipe_pk, pk) ==
    /\ Received("image", method, u, recipe_pk, pk, <<>>)
    /\ UNCHANGED tables
    /\ IF ~RecipeExists(recipe_pk)
       THEN Respond(HTTP_404_NOT_FOUND, RecipeNotFoundDetail)
       ELSE IF ~IsRecipeAuthorOrReadOnly_has_permission(method, u, recipe_pk)
       THEN permission_denied(u)
       ELSE IF /\ method # "OPTIONS" /\ pk # 0 /\ ImageInRecipe(recipe_pk, pk)
               /\ ~IsRecipeAuthorOrReadOnly_has_object_permission(method, u, ImageById(pk))
       THEN permission_denied(u)
       ELSE ListRetrieve(method, pk, ImageInRecipe(recipe_pk, pk))

ReviewViewSet_retrieve(method, u, recipe_pk, pk) ==
    /\ Received("review", method, u, recipe_pk, pk, <<>>)
    /\ UNCHANGED tables
    /\ IF ~RecipeExists(recipe_pk)
       THEN Respond(HTTP_404_NOT_FOUND, RecipeNotFoundDetail)
       ELSE IF ~NestedIsAuthenticatedOrReadOnly_has_permission(method, u)
       THEN permission_denied(u)
       ELSE IF /\ method # "OPTIONS" /\ pk # 0 /\ ReviewInRecipe(recipe_pk, pk)
               /\ ~NestedIsAuthorOrReadOnly_has_object_permission(method, u, ReviewById(pk))
       THEN permission_denied(u)
       ELSE ListRetrieve(method, pk, ReviewInRecipe(recipe_pk, pk))

RatingViewSet_retrieve(method, u, recipe_pk, pk) ==
    /\ Received("rating", method, u, recipe_pk, pk, <<>>)
    /\ UNCHANGED tables
    /\ IF ~RecipeExists(recipe_pk)
       THEN Respond(HTTP_404_NOT_FOUND, RecipeNotFoundDetail)
       ELSE IF ~NestedIsAuthenticatedOrReadOnly_has_permission(method, u)
       THEN permission_denied(u)
       ELSE IF /\ method # "OPTIONS" /\ pk # 0 /\ RatingInRecipe(recipe_pk, pk)
               /\ ~NestedIsAuthorOrReadOnly_has_object_permission(method, u, RatingById(pk))
       THEN permission_denied(u)
       ELSE ListRetrieve(method, pk, RatingInRecipe(recipe_pk, pk))

\* AuthorViewSet: the users who are not superusers, by the primary keys the
\* fixtures give them.  No permission class is declared.
UserPk == (Admin :> 1) @@ (User1 :> 2) @@ (User2 :> 3)
AuthorExists(pk) == \E u \in Users : UserPk[u] = pk /\ ~is_superuser(u)

AuthorViewSet_retrieve(method, u, pk) ==
    /\ Received("author", method, u, 0, pk, <<>>)
    /\ UNCHANGED tables
    /\ ListRetrieve(method, pk, AuthorExists(pk))

(***************************************************************************)
(* Detail actions declared for GET, HEAD and OPTIONS.  Each looks its      *)
(* object up and builds a Response under `if request.method == 'GET'`      *)
(* only: for the two other methods it returns None, which the framework    *)
(* refuses with an AssertionError.                                         *)
(***************************************************************************)
DetailAction(method, exists, data) ==
    IF ~exists
    THEN Respond(HTTP_404_NOT_FOUND, ObjectNotFoundDetail)
    ELSE IF method = "GET"
    THEN RespondData(HTTP_200_OK, "", data)
    ELSE Respond(HTTP_500_INTERNAL_SERVER_ERROR, "AssertionError")

CategoryViewSet_get_recipes(method, u, pk) ==
    /\ Received("category-get-recipes", method, u, 0, pk, <<>>)
    /\ UNCHANGED tables
    /\ IF ~IsAdminOrReadOnly_has_permission(method, u)
       THEN permission_denied(u)
       ELSE DetailAction(method, CategoryExists(pk), <<>>)

\* get_ingredients, get_reviews, get_ratings and get_images: the same code
\* over the four child tables.
RecipeChildActions ==
    {"recipe-get-ingredients", "recipe-get-reviews", "recipe-get-ratings",
     "recipe-get-images"}

RecipeViewSet_get_children(view, method, u, pk) ==
    /\ Received(view, method, u, 0, pk, <<>>)
    /\ UNCHANGED tables
    /\ IF ~IsAuthenticatedOrReadOnly_has_permission(method, u)
       THEN permission_denied(u)
       ELSE IF /\ RecipeExists(pk)
               /\ ~IsAuthorOrReadOnly_has_object_permission(method, u, RecipeById(pk))
       THEN permission_denied(u)
       ELSE DetailAction(method, RecipeExists(pk), <<>>)

RECURSIVE SumOfValues(_)
SumOfValues(rows) ==
    IF rows = {} THEN 0
    ELSE LET x == CHOOSE x \in rows : TRUE
         IN  x.value + SumOfValues(rows \ {x})

\* Variant: the aggregate runs over every rating.
RatingsOfRecipe_Unfiltered(recipe_pk) == ratings

\* Rating.objects.filter(recipe=recipe)
RatingsOfRecipe(recipe_pk) == {x \in ratings : x.recipe = recipe_pk}

\* aggregate(avg_rating=Avg('value')): null (<<>>) over no row, else the
\* quotient sum / count, kept as the exact fraction <<sum, count>>.
Avg(rows) == IF rows = {} THEN <<>> ELSE <<SumOfValues(rows), Cardinality(rows)>>

RecipeViewSet_get_average_rating(method, u, pk) ==
    /\ Received("recipe-get-average-rating", method, u, 0, pk, <<>>)
    /\ UNCHANGED tables
    /\ IF ~IsAuthenticatedOrReadOnly_has_permission(method, u)
       THEN permission_denied(u)
       ELSE IF /\ RecipeExists(pk)
               /\ ~IsAuthorOrReadOnly_has_object_permission(method, u, RecipeById(pk))
       THEN permission_denied(u)
       ELSE DetailAction(method, RecipeExists(pk), Avg(RatingsOfRecipe(pk)))

AuthorViewSet_get_recipes(method, u, pk) ==
    /\ Received("author-get-recipes", method, u, 0, pk, <<>>)
    /\ UNCHANGED tables
    /\ DetailAction(method, AuthorExists(pk), <<>>)

(***************************************************************************)
(* Requests the clients send: small sets of bodies, valid and invalid.     *)
(***************************************************************************)
Soups == <<"S", "o", "u", "p", "s">>
Pasta == <<"P", "a", "s", "t", "a">>
soups == <<"s", "o", "u", "p", "s">>
pasta == <<"p", "a", "s", "t", "a">>
Pasta_1 == <<"P", "a", "s", "t", "a", " ", "1">>
Pasta_2 == <<"P", "a", "s", "t", "a", " ", "2">>
Cook == <<"C", "o", "o", "k">>
eggs == <<"e", "g", "g", "s">>
Eggs == <<"E", "g", "g", "s">>
eggs_padded == <<" ", "e", "g", "g", "s">>
oil == <<"o", "i", "l">>
Olive_Oil == <<"O", "l", "i", "v", "e", " ", "O", "i", "l">>
Cool == <<"C", "o", "o", "l">>
Bad == <<"B", "a", "d">>
Blank == <<" ">>

Methods == {"PUT", "PATCH"}

\* Bodies sent with POST, PUT and PATCH: valid ones, invalid ones and the
\* empty body.
CategoryPostBodies ==
    [title : {Soups, Pasta}, slug : {soups, pasta}]
        \cup {[title |-> Blank, slug |-> soups], [title |-> Soups], <<>>,
              [title |-> Blank \o Pasta, slug |-> soups]}
CategoryPutBodies ==
    {[title |-> Soups, slug |-> soups], [title |-> Pasta, slug |-> soups],
     [title |-> Soups, slug |-> Soups \o Blank \o Pasta], [title |-> Pasta]}
CategoryPatchBodies == {[title |-> Pasta], [slug |-> pasta], <<>>}

SeedCategoryBodies == {[title |-> Pasta, slug |-> pasta]}
SeedRecipeBodies == {[title |-> Pasta_1, instructions |-> Cook, category |-> 1]}

RecipePostBodies ==
    [title : {Pasta_1}, instructions : {Cook}, category : 1..(MaxCategoryId + 1)]
        \cup {[title |-> Blank, instructions |-> Cook, category |-> 1],
              [title |-> Pasta_1, instructions |-> Cook, category |-> 1,
               slug |-> soups],
              [title |-> Pasta_1], <<>>}
RecipePutBodies ==
    [title : {Pasta_2}, instructions : {Cook}, category : 1..(MaxCategoryId + 1)]
        \cup {[title |-> Pasta_2]}
RecipePatchBodies ==
    {[title |-> Pasta_2], [category |-> MaxCategoryId], [slug |-> soups], <<>>}

IngredientPostBodies ==
    [name : {eggs, Eggs, eggs_padded}, quantity : {3}]
        \cup {[name |-> oil, quantity |-> 0], [name |-> oil, quantity |-> -1],
              [name |-> oil, quantity |-> 3, units_of_measurement |-> "xx"],
              [name |-> Blank, quantity |-> 3], <<>>}
IngredientPutBodies ==
    {[name |-> Eggs, quantity |-> 5], [name |-> eggs_padded, quantity |-> 5],
     [name |-> oil, quantity |-> 5], [name |-> oil, quantity |-> -1], [quantity |-> 5]}
IngredientPatchBodies ==
    {[name |-> oil], [quantity |-> 5], [units_of_measurement |-> "gm"]}

ImagePostBodies == [image : {1, limit_mb + 1}] \cup {<<>>}
ImagePutBodies == {[image |-> 1]}
ImagePatchBodies == {<<>>}

ReviewPostBodies == {[content |-> Cool], [content |-> Blank], <<>>}
ReviewPutBodies == {[content |-> Bad], [content |-> Blank], <<>>}
ReviewPatchBodies == {[content |-> Bad], <<>>}

RatingPostBodies == [value : {-1, 0, 11}] \cup {<<>>}
RatingPutBodies == [value : {-1, 10, 11}] \cup {<<>>}
RatingPatchBodies == {[value |-> 10], <<>>}

RecipePks == 1..MaxRecipeId

(***************************************************************************)
(* Clients.  A client puts one request in flight; the server answers it    *)
(* before the next one arrives.                                            *)
(***************************************************************************)
Req(view, method, u, recipe_pk, pk, body) ==
    [view |-> view, method |-> method, user |-> u,
     recipe_pk |-> recipe_pk, pk |-> pk, body |-> body]

Send(requests) ==
    /\ request = NoRequest
    /\ response = NoResponse
    /\ \E req \in requests : request' = req
    /\ UNCHANGED <<tables, response, pending>>

\* The client takes the response.
Deliver ==
    /\ response # NoResponse
    /\ response' = NoResponse
    /\ UNCHANGED <<tables, request, pending>>

\* The requests on one top-level resource: POST on the list, PUT, PATCH and
\* DELETE on a detail URL.
TopRequests(view, users, pks, postBodies, putBodies, patchBodies) ==
    {Req(view, "POST", u, 0, 0, b) : u \in users, b \in postBodies}
      \cup {Req(view, "PUT", u, 0, pk, b) : u \in users, pk \in pks, b \in putBodies}
      \cup {Req(view, "PATCH", u, 0, pk, b) : u \in users, pk \in pks, b \in patchBodies}
      \cup {Req(view, "DELETE", u, 0, pk, <<>>) : u \in users, pk \in pks}

\* The same for a resource nested under /recipes/<recipe_pk>/.
NestedRequests(view, users, pks, postBodies, putBodies, patchBodies) ==
    {Req(view, "POST", u, r, 0, b) : u \in users, r \in RecipePks, b \in postBodies}
      \cup {Req(view, "PUT", u, r, pk, b) :
               u \in users, r \in RecipePks, pk \in pks, b \in putBodies}
      \cup {Req(view, "PATCH", u, r, pk, b) :
               u \in users, r \in RecipePks, pk \in pks, b \in patchBodies}
      \cup {Req(view, "DELETE", u, r, pk, <<>>) : u \in users, r \in RecipePks, pk \in pks}

\* Seeding requests of the specifications of the nested resources: the
\* superuser creates a category; User1 creates the first recipe in it and
\* User2 the later ones.
SeedRequests ==
    {Req("category", "POST", Admin, 0, 0, b) : b \in SeedCategoryBodies}
      \cup {Req("recipe", "POST", IF recipes = {} THEN User1 ELSE User2, 0, 0, b) :
               b \in SeedRecipeBodies}

(***************************************************************************)
(* The server: one action per handler.                                     *)
(***************************************************************************)
Serving(view, methods) == request.view = view /\ request.method \in methods

CategoryPost ==
    Serving("category", {"POST"}) /\ CategoryViewSet_create(request.user, request.body)
CategoryPut ==
    /\ Serving("category", Methods)
    /\ CategoryViewSet_update(request.method, request.user, request.pk, request.body)
CategoryDelete ==
    Serving("category", {"DELETE"}) /\ CategoryViewSet_destroy(request.user, request.pk)

RecipePost ==
    Serving("recipe", {"POST"}) /\ RecipeViewSet_create(request.user, request.body)
RecipePut ==
    /\ Serving("recipe", Methods)
    /\ RecipeViewSet_update(request.method, request.user, request.pk, request.body)
RecipeDelete ==
    Serving("recipe", {"DELETE"}) /\ RecipeViewSet_destroy(request.user, request.pk)

IngredientPost ==
    /\ Serving("ingredient", {"POST"})
    /\ IngredientViewSet_create(request.user, request.recipe_pk, request.body)
IngredientPut ==
    /\ Serving("ingredient", Methods)
    /\ IngredientViewSet_update(request.method, request.user, request.recipe_pk,
                                request.pk, request.body)
IngredientDelete ==
    /\ Serving("ingredient", {"DELETE"})
    /\ IngredientViewSet_destroy(request.user, request.recipe_pk, request.pk)

ImagePost ==
    /\ Serving("image", {"POST"})
    /\ RecipeImageViewSet_create(request.user, request.recipe_pk, request.body)
ImagePut ==
    /\ Serving("image", Methods)
    /\ RecipeImageViewSet_update(request.method, request.user, request.recipe_pk,
                                 request.pk, request.body)
ImageDelete ==
    /\ Serving("image", {"DELETE"})
    /\ RecipeImageViewSet_destroy(request.user, request.recipe_pk, request.pk)

ReviewPost ==
    /\ Serving("review", {"POST"})
    /\ ReviewViewSet_create(request.user, request.recipe_pk, request.body)
ReviewPut ==
    /\ Serving("review", Methods)
    /\ ReviewViewSet_update(request.method, request.user, request.recipe_pk,
                            request.pk, request.body)
ReviewDelete ==
    /\ Serving("review", {"DELETE"})
    /\ ReviewViewSet_destroy(request.user, request.recipe_pk, request.pk)

RatingPost ==
    /\ Serving("rating", {"POST"})
    /\ RatingViewSet_create(request.user, request.recipe_pk, request.body)
RatingPut ==
    /\ Serving("rating", Methods)
    /\ RatingViewSet_update(request.method, request.user, request.recipe_pk,
                            request.pk, request.body)
RatingDelete ==
    /\ Serving("rating", {"DELETE"})
    /\ RatingViewSet_destroy(request.user, request.recipe_pk, request.pk)

(***************************************************************************)
(* Specifications, one per resource.                                       *)
(***************************************************************************)
CategoryRequests ==
    TopRequests("category", Requesters, 1..MaxCategoryId,
                CategoryPostBodies, CategoryPutBodies, CategoryPatchBodies)
      \cup {Req("recipe", "POST", IF recipes = {} THEN User1 ELSE User2, 0, 0, b) :
               b \in SeedRecipeBodies}
      \cup {Req("recipe", "DELETE", u, 0, pk, <<>>) : u \in {User1, User2}, pk \in RecipePks}
NextCategories ==
    \/ Send(CategoryRequests)
    \/ Deliver
    \/ CategoryPost
    \/ CategoryPut
    \/ CategoryDelete
    \/ RecipePost
    \/ RecipeDelete
SpecCategories == Init /\ [][NextCategories]_vars

RecipeRequests ==
    TopRequests("recipe", Requesters, RecipePks,
                RecipePostBodies, RecipePutBodies, RecipePatchBodies)
      \cup {Req("category", "POST", Admin, 0, 0, b) : b \in SeedCategoryBodies}
NextRecipes ==
    \/ Send(RecipeRequests)
    \/ Deliver
    \/ CategoryPost
    \/ RecipePost
    \/ RecipePut
    \/ RecipeDelete
SpecRecipes == Init /\ [][NextRecipes]_vars

IngredientRequests ==
    SeedRequests \cup
    NestedRequests("ingredient", NestedRequesters, 1..MaxIngredientId,
                   IngredientPostBodies, IngredientPutBodies, IngredientPatchBodies)
NextIngredients ==
    \/ Send(IngredientRequests)
    \/ Deliver
    \/ CategoryPost
    \/ RecipePost
    \/ IngredientPost
    \/ IngredientPut
    \/ IngredientDelete
SpecIngredients == Init /\ [][NextIngredients]_vars

\* Ingredient writes whose names differ in letter case and hold a space.
IngredientNameRequests ==
    SeedRequests \cup
    NestedRequests("ingredient", {User1, User2}, 1..MaxIngredientId,
                   [name : {Eggs, Olive_Oil}, quantity : {3}],
                   {[name |-> Olive_Oil, quantity |-> 3]},
                   {[name |-> Eggs]})
NextIngredientNames ==
    \/ Send(IngredientNameRequests)
    \/ Deliver
    \/ CategoryPost
    \/ RecipePost
    \/ IngredientPost
    \/ IngredientPut
    \/ IngredientDelete
SpecIngredientNames == Init /\ [][NextIngredientNames]_vars

ImageRequests ==
    SeedRequests \cup
    NestedRequests("image", NestedRequesters, 1..MaxImageId,
                   ImagePostBodies, ImagePutBodies, ImagePatchBodies)
NextImages ==
    \/ Send(ImageRequests)
    \/ Deliver
    \/ CategoryPost
    \/ RecipePost
    \/ ImagePost
    \/ ImagePut
    \/ ImageDelete
SpecImages == Init /\ [][NextImages]_vars

ReviewRequests ==
    SeedRequests \cup
    NestedRequests("review", NestedRequesters, 1..MaxReviewId,
                   ReviewPostBodies, ReviewPutBodies, ReviewPatchBodies)
NextReviews ==
    \/ Send(ReviewRequests)
    \/ Deliver
    \/ CategoryPost
    \/ RecipePost
    \/ ReviewPost
    \/ ReviewPut
    \/ ReviewDelete
SpecReviews == Init /\ [][NextReviews]_vars

RatingRequests ==
    SeedRequests \cup
    NestedRequests("rating", NestedRequesters, 1..MaxRatingId,
                   RatingPostBodies, RatingPutBodies, RatingPatchBodies)
NextRatings ==
    \/ Send(RatingRequests)
    \/ Deliver
    \/ CategoryPost
    \/ RecipePost
    \/ RatingPost
    \/ RatingPut
    \/ RatingDelete
SpecRatings == Init /\ [][NextRatings]_vars

\* Creations only: POSTs of recipes, reviews and ratings, with and without an
\* author and a recipe in the body.
CreationRequests ==
    {Req("category", "POST", Admin, 0, 0, b) : b \in SeedCategoryBodies}
      \cup {Req("recipe", "POST", u, 0, 0, b) :
               u \in {IF recipes = {} THEN User1 ELSE User2, Anonymous},
               b \in SeedRecipeBodies \cup
                     {[title |-> Pasta_1, instructions |-> Cook, category |-> 1,
                       author |-> Admin]}}
      \cup {Req("review", "POST", u, r, 0, b) :
               u \in {User1, User2}, r \in RecipePks,
               b \in {[content |-> Cool],
                      [content |-> Bad, author |-> Admin, recipe |-> MaxRecipeId]}}
      \cup {Req("rating", "POST", u, r, 0, b) :
               u \in {User1, Anonymous}, r \in RecipePks,
               b \in {[value |-> 0],
                      [value |-> 0, author |-> Admin, recipe |-> MaxRecipeId]}}
NextCreations ==
    \/ Send(CreationRequests)
    \/ Deliver
    \/ CategoryPost
    \/ RecipePost
    \/ ReviewPost
    \/ RatingPost
SpecCreations == Init /\ [][NextCreations]_vars

(***************************************************************************)
(* The whole API.  In one run the clients work on one resource: requests   *)
(* on a resource are sent while the other resources hold nothing but what  *)
(* the seeding requests create.                                            *)
(***************************************************************************)
ChildKinds == {"ingredient", "image", "review", "rating"}

OthersUntouched(kind) == \A k \in ChildKinds \ {kind} : nextId[k] = 1

\* The tables as the seeding requests alone leave them.
SeedCategoriesOnly ==
    /\ \A c \in categories : [title |-> c.title, slug |-> c.slug] \in SeedCategoryBodies
    /\ Cardinality(categories) = nextId.category - 1

SeedFormRecipes ==
    \A r \in recipes :
        /\ [title |-> r.title, instructions |-> r.instructions,
            category |-> r.category] \in SeedRecipeBodies
        /\ r.author = IF r.id = 1 THEN User1 ELSE User2

SeedRecipesOnly == SeedFormRecipes /\ Cardinality(recipes) = nextId.recipe - 1

AllRequests ==
    (IF OthersUntouched("none") /\ SeedFormRecipes THEN CategoryRequests ELSE {})
      \cup (IF OthersUntouched("none") /\ SeedCategoriesOnly THEN RecipeRequests ELSE {})
      \cup (IF OthersUntouched("ingredient") /\ SeedCategoriesOnly /\ SeedRecipesOnly
            THEN IngredientRequests ELSE {})
      \cup (IF OthersUntouched("image") /\ SeedCategoriesOnly /\ SeedRecipesOnly
            THEN ImageRequests ELSE {})
      \cup (IF OthersUntouched("review") /\ SeedCategoriesOnly /\ SeedRecipesOnly
            THEN ReviewRequests ELSE {})
      \cup (IF OthersUntouched("rating") /\ SeedCategoriesOnly /\ SeedRecipesOnly
            THEN RatingRequests ELSE {})


Next ==
    \/ Send(AllRequests)
    \/ Deliver
    \/ CategoryPost
    \/ CategoryPut
    \/ CategoryDelete
    \/ RecipePost
    \/ RecipePut
    \/ RecipeDelete
    \/ IngredientPost
    \/ IngredientPut
    \/ IngredientDelete
    \/ ImagePost
    \/ ImagePut
    \/ ImageDelete
    \/ ReviewPost
    \/ ReviewPut
    \/ ReviewDelete
    \/ RatingPost
    \/ RatingPut
    \/ RatingDelete

Spec == Init /\ [][Next]_vars

(***************************************************************************)
(* Recipes deleted with what they hold.  In one run the recipes hold        *)
(* children of one kind, written by their authors and, for reviews and     *)
(* ratings, by the other users as well.                                    *)
(***************************************************************************)
CascadeRequests ==
    SeedRequests
      \cup {Req("recipe", "DELETE", u, 0, pk, <<>>) : u \in {User1, User2}, pk \in RecipePks}
      \cup (IF OthersUntouched("ingredient")
            THEN {Req("ingredient", "POST", u, r, 0, [name |-> eggs, quantity |-> 3]) :
                     u \in {User1, User2}, r \in RecipePks}
            ELSE {})
      \cup (IF OthersUntouched("image")
            THEN {Req("image", "POST", u, r, 0, [image |-> 1]) :
                     u \in {User1, User2}, r \in RecipePks}
            ELSE {})
      \cup (IF OthersUntouched("review")
            THEN {Req("review", "POST", u, r, 0, [content |-> Cool]) :
                     u \in {User1, User2}, r \in RecipePks}
            ELSE {})
      \cup (IF OthersUntouched("rating")
            THEN {Req("rating", "POST", u, r, 0, [value |-> 0]) :
                     u \in {User1, User2}, r \in RecipePks}
            ELSE {})
NextCascade ==
    \/ Send(CascadeRequests)
    \/ Deliver
    \/ CategoryPost
    \/ RecipePost
    \/ RecipeDelete
    \/ IngredientPost
    \/ ImagePost
    \/ ReviewPost
    \/ RatingPost
SpecCascade == Init /\ [][NextCascade]_vars

(***************************************************************************)
(* Updates that name another owner or another parent.  Every PUT and PATCH *)
(* body carries an author and a recipe besides the fields of the resource; *)
(* in one run User1 adds children of one kind to the first recipe, and     *)
(* both users try to update the first child through every recipe.          *)
(***************************************************************************)
ChildUpdateRequests(view, postBodies, putBodies, patchBodies) ==
    {Req(view, "POST", User1, 1, 0, b) : b \in postBodies}
      \cup {Req(view, "PUT", u, r, 1, b) :
               u \in {User1, User2}, r \in RecipePks, b \in putBodies}
      \cup {Req(view, "PATCH", u, r, 1, b) :
               u \in {User1, User2}, r \in RecipePks, b \in patchBodies}

UpdateRequests ==
    SeedRequests
      \cup (IF OthersUntouched("none")
            THEN {Req("recipe", m, u, 0, pk, [title |-> Pasta_2, author |-> User2]) :
                     m \in {"PUT", "PATCH"}, u \in {User1, User2}, pk \in RecipePks}
            ELSE {})
      \cup (IF OthersUntouched("ingredient")
            THEN ChildUpdateRequests("ingredient",
                                     {[name |-> eggs, quantity |-> 3]},
                                     {[name |-> oil, quantity |-> 5, recipe |-> MaxRecipeId]},
                                     {[name |-> oil, recipe |-> MaxRecipeId]})
            ELSE {})
      \cup (IF OthersUntouched("image")
            THEN ChildUpdateRequests("image",
                                     {[image |-> 1]},
                                     {[image |-> 1, recipe |-> MaxRecipeId]},
                                     {[recipe |-> MaxRecipeId]})
            ELSE {})
      \cup (IF OthersUntouched("review")
            THEN ChildUpdateRequests("review",
                                     {[content |-> Cool]},
                                     {[content |-> Bad, author |-> User2, recipe |-> MaxRecipeId]},
                                     {[author |-> User2, recipe |-> MaxRecipeId]})
            ELSE {})
      \cup (IF OthersUntouched("rating")
            THEN ChildUpdateRequests("rating",
                                     {[value |-> 0]},
                                     {[value |-> 10, author |-> User2, recipe |-> MaxRecipeId]},
                                     {[author |-> User2, recipe |-> MaxRecipeId]})
            ELSE {})
NextUpdates ==
    \/ Send(UpdateRequests)
    \/ Deliver
    \/ CategoryPost
    \/ RecipePost
    \/ RecipePut
    \/ IngredientPost
    \/ IngredientPut
    \/ ImagePost
    \/ ImagePut
    \/ ReviewPost
    \/ ReviewPut
    \/ RatingPost
    \/ RatingPut
SpecUpdates == Init /\ [][NextUpdates]_vars

(***************************************************************************)
(* The whole API with its read-only routes.  Every method is sent on every *)
(* route; the writes carry one valid and one empty body, enough to fill    *)
(* the tables the reads look at.  The reads come from a logged-in user     *)
(* (the author of recipe 1 and of no other) and from a client without      *)
(* credentials.                                                            *)
(***************************************************************************)
AuthorPks == 1..3
Readers == {User1, Anonymous}

TopReads(view, users, pks) ==
    {Req(view, m, u, 0, pk, <<>>) : m \in SAFE_METHODS, u \in users, pk \in pks}

NestedReads(view, users, pks) ==
    {Req(view, m, u, r, pk, <<>>) :
        m \in SAFE_METHODS, u \in users, r \in RecipePks, pk \in pks}

ReadFamily(kind) == OthersUntouched(kind) /\ SeedCategoriesOnly /\ SeedFormRecipes

ReadRequests ==
    SeedRequests
      \cup (IF ReadFamily("none")
            THEN TopReads("category", Requesters, 0..MaxCategoryId)
                   \cup TopReads("category-get-recipes", Requesters, 1..MaxCategoryId)
                   \cup TopReads("recipe", Requesters, {0} \cup RecipePks)
                   \cup TopReads("author", Requesters, {0} \cup AuthorPks)
                   \cup TopReads("author-get-recipes", Requesters, AuthorPks)
            ELSE {})
      \cup (IF ReadFamily("ingredient")
            THEN NestedRequests("ingredient", NestedRequesters, 1..MaxIngredientId,
                                {[name |-> eggs, quantity |-> 3], <<>>},
                                {[name |-> oil, quantity |-> 5]}, {[quantity |-> 5]})
                   \cup NestedReads("ingredient", Readers, 0..MaxIngredientId)
                   \cup TopReads("recipe-get-ingredients", Readers, RecipePks)
            ELSE {})
      \cup (IF ReadFamily("image")
            THEN NestedRequests("image", NestedRequesters, 1..MaxImageId,
                                {[image |-> 1], <<>>}, ImagePutBodies, ImagePatchBodies)
                   \cup NestedReads("image", Readers, 0..MaxImageId)
                   \cup TopReads("recipe-get-images", Readers, RecipePks)
            ELSE {})
      \cup (IF ReadFamily("review")
            THEN NestedRequests("review", NestedRequesters, 1..MaxReviewId,
                                {[content |-> Cool], <<>>}, {[content |-> Bad]}, {<<>>})
                   \cup NestedReads("review", Readers, 0..MaxReviewId)
                   \cup TopReads("recipe-get-reviews", Readers, RecipePks)
            ELSE {})
      \cup (IF ReadFamily("rating")
            THEN NestedRequests("rating", NestedRequesters, 1..MaxRatingId,
                                {[value |-> 0], <<>>}, {[value |-> 10]}, {<<>>})
                   \cup NestedReads("rating", Readers, 0..MaxRatingId)
                   \cup TopReads("recipe-get-ratings", Readers, RecipePks)
                   \cup TopReads("recipe-get-average-rating", Readers, RecipePks)
            ELSE {})

NextReads ==
    \/ Send(ReadRequests)
    \/ Deliver
    \/ CategoryPost
    \/ RecipePost
    \/ IngredientPost
    \/ IngredientPut
    \/ IngredientDelete
    \/ ImagePost
    \/ ImagePut
    \/ ImageDelete
    \/ ReviewPost
    \/ ReviewPut
    \/ ReviewDelete
    \/ RatingPost
    \/ RatingPut
    \/ RatingDelete
    \/ /\ Serving("category", SAFE_METHODS)
       /\ CategoryViewSet_retrieve(request.method, request.user, request.pk)
    \/ /\ Serving("category-get-recipes", SAFE_METHODS)
       /\ CategoryViewSet_get_recipes(request.method, request.user, request.pk)
    \/ /\ Serving("recipe", SAFE_METHODS)
       /\ RecipeViewSet_retrieve(request.method, request.user, request.pk)
    \/ /\ request.view \in RecipeChildActions
       /\ RecipeViewSet_get_children(request.view, request.method, request.user,
                                     request.pk)
    \/ /\ Serving("recipe-get-average-rating", SAFE_METHODS)
       /\ RecipeViewSet_get_average_rating(request.method, request.user, request.pk)
    \/ /\ Serving("ingredient", SAFE_METHODS)
       /\ IngredientViewSet_retrieve(request.method, request.user, request.recipe_pk,
                                     request.pk)
    \/ /\ Serving("image", SAFE_METHODS)
       /\ RecipeImageViewSet_retrieve(request.method, request.user, request.recipe_pk,
                                      request.pk)
    \/ /\ Serving("review", SAFE_METHODS)
       /\ ReviewViewSet_retrieve(request.method, request.user, request.recipe_pk,
                                 request.pk)
    \/ /\ Serving("rating", SAFE_METHODS)
       /\ RatingViewSet_retrieve(request.method, request.user, request.recipe_pk,
                                 request.pk)
    \/ /\ Serving("author", SAFE_METHODS)
       /\ AuthorViewSet_retrieve(request.method, request.user, request.pk)
    \/ /\ Serving("author-get-recipes", SAFE_METHODS)
       /\ AuthorViewSet_get_recipes(request.method, request.user, request.pk)

SpecReads == Init /\ [][NextReads]_vars

(***************************************************************************)
(* Interleaved requests.  A handler that looks the tables up and then      *)
(* writes is two steps: the lookup, after which the request waits in       *)
(* `pending` while other requests are served, and the write, which the     *)
(* database checks against its own constraints (an IntegrityError or a     *)
(* ProtectedError is not caught by the views and is answered 500).         *)
(***************************************************************************)
MaxPending == 2

IntegrityError == "IntegrityError"

\* The request passed its lookup and waits for its write.
Enqueue ==
    /\ Len(pending) < MaxPending
    /\ pending' = Append(pending, request)
    /\ request' = NoRequest
    /\ UNCHANGED <<tables, response>>

\* The i-th waiting request leaves.
Dequeue(i) ==
    pending' = [j \in 1..(Len(pending) - 1) |->
                   IF j < i THEN pending[j] ELSE pending[j + 1]]

Waiting(i, view, methods) ==
    /\ response = NoResponse
    /\ i \in DOMAIN pending
    /\ pending[i].view = view
    /\ pending[i].method \in methods

Answer(p, status, detail) ==
    response' = [status |-> status, detail |-> detail, data |-> <<>>,
                 view |-> p.view, method |-> p.method]

\* ReviewViewSet.create up to the lookup of perform_create: a request that
\* is refused is answered as in the atomic handler.
ReviewViewSet_create_lookup(u, recipe_pk, body) ==
    /\ request = Req("review", "POST", u, recipe_pk, 0, body)
    /\ IF /\ RecipeExists(recipe_pk)
          /\ NestedIsAuthenticatedOrReadOnly_has_permission("POST", u)
          /\ ReviewSerializer_is_valid(body, FALSE)
          /\ ReviewOfUser(u, recipe_pk) = {}
       THEN Enqueue
       ELSE ReviewViewSet_create(u, recipe_pk, body)

\* Variant: the table carries no unique_together constraint.
ReviewViewSet_create_save_NoConstraint(i) ==
    /\ Waiting(i, "review", {"POST"})
    /\ LET p == pending[i] IN
       IF ~RecipeExists(p.recipe_pk)
       THEN Answer(p, HTTP_500_INTERNAL_SERVER_ERROR, IntegrityError) /\ UNCHANGED tables
       ELSE /\ nextId.review <= MaxReviewId
            /\ reviews' = reviews \cup
                  {[id |-> nextId.review, recipe |-> p.recipe_pk, author |-> p.user,
                    content |-> ReviewSerializer_validated(p.body).content]}
            /\ nextId' = [nextId EXCEPT !.review = @ + 1]
            /\ Answer(p, HTTP_201_CREATED, "")
            /\ UNCHANGED <<categories, recipes, ingredients, images, ratings>>
    /\ Dequeue(i)
    /\ UNCHANGED request

\* serializer.save(recipe_id=..., author_id=...): the INSERT, refused by the
\* database when the recipe is gone or the (recipe, author) pair is taken
\* (unique_together).
ReviewViewSet_create_save(i) ==
    /\ Waiting(i, "review", {"POST"})
    /\ LET p == pending[i] IN
       IF \/ ~RecipeExists(p.recipe_pk)
          \/ \E x \in reviews : x.recipe = p.recipe_pk /\ x.author = p.user
       THEN Answer(p, HTTP_500_INTERNAL_SERVER_ERROR, IntegrityError) /\ UNCHANGED tables
       ELSE /\ nextId.review <= MaxReviewId
            /\ reviews' = reviews \cup
                  {[id |-> nextId.review, recipe |-> p.recipe_pk, author |-> p.user,
                    content |-> ReviewSerializer_validated(p.body).content]}
            /\ nextId' = [nextId EXCEPT !.review = @ + 1]
            /\ Answer(p, HTTP_201_CREATED, "")
            /\ UNCHANGED <<categories, recipes, ingredients, images, ratings>>
    /\ Dequeue(i)
    /\ UNCHANGED request

ReviewRaceRequests ==
    SeedRequests \cup
    {Req("review", "POST", u, r, 0, b) :
        u \in {User1, User2}, r \in RecipePks, b \in {[content |-> Cool]}}
NextReviewRace ==
    \/ Send(ReviewRaceRequests)
    \/ Deliver
    \/ CategoryPost
    \/ RecipePost
    \/ /\ Serving("review", {"POST"})
       /\ ReviewViewSet_create_lookup(request.user, request.recipe_pk, request.body)
    \/ \E i \in DOMAIN pending : ReviewViewSet_create_save(i)
SpecReviewRace == Init /\ [][NextReviewRace]_vars

\* RecipeImageViewSet.create up to the count of perform_create.
RecipeImageViewSet_create_lookup(u, recipe_pk, body) ==
    /\ request = Req("image", "POST", u, recipe_pk, 0, body)
    /\ IF /\ RecipeExists(recipe_pk)
          /\ IsRecipeAuthorOrReadOnly_has_permission("POST", u, recipe_pk)
          /\ RecipeImageSerializer_is_valid(body)
          /\ ~ImageLimitReached(recipe_pk)
       THEN Enqueue
       ELSE RecipeImageViewSet_create(u, recipe_pk, body)

\* serializer.save(recipe_id=...): the INSERT; the table has no constraint
\* but the foreign key to the recipe.
RecipeImageViewSet_create_save(i) ==
    /\ Waiting(i, "image", {"POST"})
    /\ LET p == pending[i] IN
       IF ~RecipeExists(p.recipe_pk)
       THEN Answer(p, HTTP_500_INTERNAL_SERVER_ERROR, IntegrityError) /\ UNCHANGED tables
       ELSE /\ nextId.image <= MaxImageId
            /\ images' = images \cup {[id |-> nextId.image, recipe |-> p.recipe_pk]}
            /\ nextId' = [nextId EXCEPT !.image = @ + 1]
            /\ Answer(p, HTTP_201_CREATED, "")
            /\ UNCHANGED <<categories, recipes, ingredients, reviews, ratings>>
    /\ Dequeue(i)
    /\ UNCHANGED request

ImageRaceRequests ==
    SeedRequests \cup
    {Req("image", "POST", u, r, 0, [image |-> 1]) : u \in {User1, User2}, r \in RecipePks}
NextImageRace ==
    \/ Send(ImageRaceRequests)
    \/ Deliver
    \/ CategoryPost
    \/ RecipePost
    \/ /\ Serving("image", {"POST"})
       /\ RecipeImageViewSet_create_lookup(request.user, request.recipe_pk, request.body)
    \/ \E i \in DOMAIN pending : RecipeImageViewSet_create_save(i)
SpecImageRace == Init /\ [][NextImageRace]_vars

\* IngredientViewSet.create up to the duplicate lookup of perform_create.
IngredientViewSet_create_lookup(u, recipe_pk, body) ==
    /\ request = Req("ingredient", "POST", u, recipe_pk, 0, body)
    /\ IF /\ RecipeExists(recipe_pk)
          /\ IsRecipeAuthorOrReadOnly_has_permission("POST", u, recipe_pk)
          /\ IngredientSerializer_is_valid(body, FALSE)
          /\ IngredientsWithName(Lower(body.name), recipe_pk) = {}
       THEN Enqueue
       ELSE IngredientViewSet_create(u, recipe_pk, body)

\* serializer.save(recipe_id=...): the INSERT; the table has no constraint
\* on (recipe, name), only the foreign key to the recipe.
IngredientViewSet_create_save(i) ==
    /\ Waiting(i, "ingredient", {"POST"})
    /\ LET p == pending[i]
           data == IngredientSerializer_validated(p.body)
       IN  IF ~RecipeExists(p.recipe_pk)
           THEN Answer(p, HTTP_500_INTERNAL_SERVER_ERROR, IntegrityError)
                /\ UNCHANGED tables
           ELSE /\ nextId.ingredient <= MaxIngredientId
                /\ ingredients' = ingredients \cup
                      {Ingredient_save(
                         [id |-> nextId.ingredient, recipe |-> p.recipe_pk,
                          name |-> data.name, slug |-> <<>>,
                          quantity |-> data.quantity,
                          units_of_measurement |->
                              IF Has(data, "units_of_measurement")
                              THEN data.units_of_measurement ELSE NullUnits])}
                /\ nextId' = [nextId EXCEPT !.ingredient = @ + 1]
                /\ Answer(p, HTTP_201_CREATED, "")
                /\ UNCHANGED <<categories, recipes, images, reviews, ratings>>
    /\ Dequeue(i)
    /\ UNCHANGED request

\* IngredientViewSet.update up to the duplicate lookup of perform_update.
IngredientViewSet_update_lookup(method, u, recipe_pk, pk, body) ==
    /\ request = Req("ingredient", method, u, recipe_pk, pk, body)
    /\ IF /\ RecipeExists(recipe_pk)
          /\ IsRecipeAuthorOrReadOnly_has_permission(method, u, recipe_pk)
          /\ IngredientInRecipe(recipe_pk, pk)
          /\ IsRecipeAuthorOrReadOnly_has_object_permission(method, u, IngredientById(pk))
          /\ IngredientSerializer_is_valid(body, method = "PATCH")
          /\ Has(body, "name")
          /\ IngredientsWithName(Lower(body.name), recipe_pk) \in {{}, {IngredientById(pk)}}
       THEN Enqueue
       ELSE IngredientViewSet_update(method, u, recipe_pk, pk, body)

\* super().perform_update(serializer): the row is written with the values of
\* the request (the requests of this section carry every field they write).
IngredientViewSet_update_save(i) ==
    /\ Waiting(i, "ingredient", Methods)
    /\ LET p == pending[i]
           data == IngredientSerializer_validated(p.body)
           old == IngredientById(p.pk)
           new == [old EXCEPT
                     !.name = IF Has(data, "name") THEN data.name ELSE @,
                     !.quantity = IF Has(data, "quantity") THEN data.quantity ELSE @,
                     !.units_of_measurement =
                         IF Has(data, "units_of_measurement")
                         THEN data.units_of_measurement ELSE @]
       IN  /\ ingredients' = (ingredients \ {old}) \cup {Ingredient_save(new)}
           /\ Answer(p, HTTP_200_OK, "")
           /\ UNCHANGED <<categories, recipes, images, reviews, ratings, nextId>>
    /\ Dequeue(i)
    /\ UNCHANGED request

\* Names as they are stored: no letter case or padding to normalise.
IngredientRaceRequests ==
    SeedRequests \cup
    {Req("ingredient", "POST", u, r, 0, [name |-> n, quantity |-> 3]) :
        u \in {User1, User2}, r \in RecipePks, n \in {eggs, oil}}
      \cup {Req("ingredient", "PUT", u, r, pk, [name |-> eggs, quantity |-> 3]) :
               u \in {User1, User2}, r \in RecipePks, pk \in 1..MaxIngredientId}
NextIngredientRace ==
    \/ Send(IngredientRaceRequests)
    \/ Deliver
    \/ CategoryPost
    \/ RecipePost
    \/ /\ Serving("ingredient", {"POST"})
       /\ IngredientViewSet_create_lookup(request.user, request.recipe_pk, request.body)
    \/ \E i \in DOMAIN pending : IngredientViewSet_create_save(i)
    \/ /\ Serving("ingredient", Methods)
       /\ IngredientViewSet_update_lookup(request.method, request.user,
                                          request.recipe_pk, request.pk, request.body)
    \/ \E i \in DOMAIN pending : IngredientViewSet_update_save(i)
SpecIngredientRace == Init /\ [][NextIngredientRace]_vars

ProtectedError == "ProtectedError"

\* CategoryViewSet.destroy up to its has-recipes lookup.
CategoryViewSet_destroy_lookup(u, pk) ==
    /\ request = Req("category", "DELETE", u, 0, pk, <<>>)
    /\ IF /\ IsAdminOrReadOnly_has_permission("DELETE", u)
          /\ ~CategoryHasRecipes(pk)
       THEN Enqueue
       ELSE CategoryViewSet_destroy(u, pk)

\* Variant: the foreign key does not protect the category.
CategoryViewSet_destroy_delete_Unprotected(i) ==
    /\ Waiting(i, "category", {"DELETE"})
    /\ LET p == pending[i] IN
       IF ~CategoryExists(p.pk)
       THEN Answer(p, HTTP_404_NOT_FOUND, ObjectNotFoundDetail) /\ UNCHANGED tables
       ELSE /\ categories' = categories \ {CategoryById(p.pk)}
            /\ Answer(p, HTTP_204_NO_CONTENT, "")
            /\ UNCHANGED <<recipes, ingredients, images, reviews, ratings, nextId>>
    /\ Dequeue(i)
    /\ UNCHANGED request

\* super().destroy(): get_object(), then instance.delete(), which
\* on_delete=PROTECT refuses while a recipe references the category.
CategoryViewSet_destroy_delete(i) ==
    /\ Waiting(i, "category", {"DELETE"})
    /\ LET p == pending[i] IN
       IF ~CategoryExists(p.pk)
       THEN Answer(p, HTTP_404_NOT_FOUND, ObjectNotFoundDetail) /\ UNCHANGED tables
       ELSE IF \E r \in recipes : r.category = p.pk
       THEN Answer(p, HTTP_500_INTERNAL_SERVER_ERROR, ProtectedError) /\ UNCHANGED tables
       ELSE /\ categories' = categories \ {CategoryById(p.pk)}
            /\ Answer(p, HTTP_204_NO_CONTENT, "")
            /\ UNCHANGED <<recipes, ingredients, images, reviews, ratings, nextId>>
    /\ Dequeue(i)
    /\ UNCHANGED request

\* RecipeViewSet.create up to serializer.is_valid(), which resolves the
\* category.
RecipeViewSet_create_lookup(u, body) ==
    /\ request = Req("recipe", "POST", u, 0, 0, body)
    /\ IF /\ IsAuthenticatedOrReadOnly_has_permission("POST", u)
          /\ RecipeSerializer_is_valid(body, FALSE)
       THEN Enqueue
       ELSE RecipeViewSet_create(u, body)

\* serializer.save(author=...): the INSERT, refused by the foreign key when
\* the category is gone.
RecipeViewSet_create_save(i) ==
    /\ Waiting(i, "recipe", {"POST"})
    /\ LET p == pending[i]
           data == RecipeSerializer_validated(p.body)
       IN  IF ~CategoryExists(data.category)
           THEN Answer(p, HTTP_500_INTERNAL_SERVER_ERROR, IntegrityError)
                /\ UNCHANGED tables
           ELSE /\ nextId.recipe <= MaxRecipeId
                /\ recipes' = recipes \cup
                      {Recipe_save([id |-> nextId.recipe, author |-> p.user,
                                    title |-> data.title, slug |-> <<>>,
                                    instructions |-> data.instructions,
                                    category |-> data.category])}
                /\ nextId' = [nextId EXCEPT !.recipe = @ + 1]
                /\ Answer(p, HTTP_201_CREATED, "")
                /\ UNCHANGED <<categories, ingredients, images, reviews, ratings>>
    /\ Dequeue(i)
    /\ UNCHANGED request

\* The superuser creates and deletes categories while User1 creates recipes
\* and moves them from one category to the other.
CategoryRaceRequests ==
    {Req("category", "POST", Admin, 0, 0, b) :
        b \in {[title |-> Pasta, slug |-> pasta], [title |-> Soups, slug |-> soups]}}
      \cup {Req("category", "DELETE", Admin, 0, pk, <<>>) : pk \in 1..MaxCategoryId}
      \cup {Req("recipe", "POST", User1, 0, 0,
                 [title |-> Pasta_1, instructions |-> Cook, category |-> c]) :
               c \in 1..MaxCategoryId}
      \cup {Req("recipe", "PATCH", User1, 0, pk, [category |-> c]) :
               pk \in RecipePks, c \in 1..MaxCategoryId}
NextCategoryRace ==
    \/ Send(CategoryRaceRequests)
    \/ Deliver
    \/ CategoryPost
    \/ RecipePut
    \/ /\ Serving("category", {"DELETE"})
       /\ CategoryViewSet_destroy_lookup(request.user, request.pk)
    \/ \E i \in DOMAIN pending : CategoryViewSet_destroy_delete(i)
    \/ /\ Serving("recipe", {"POST"})
       /\ RecipeViewSet_create_lookup(request.user, request.body)
    \/ \E i \in DOMAIN pending : RecipeViewSet_create_save(i)
SpecCategoryRace == Init /\ [][NextCategoryRace]_vars

(***************************************************************************)
(* Properties.                                                             *)
(***************************************************************************)
\* A request is in flight: the next step is its handler's.
InFlight(views, methods) == request.view \in views /\ request.method \in methods
Mutating == {"POST", "PUT", "PATCH", "DELETE"}
Status(code) == response'.status = code

\* The author's POST of an image on a recipe that holds 3 images.
ImagePostAtLimit ==
    /\ InFlight({"image"}, {"POST"})
    /\ RecipeExists(request.recipe_pk)
    /\ RecipeById(request.recipe_pk).author = request.user
    /\ Cardinality({x \in images : x.recipe = request.recipe_pk}) = 3

AtMostThreeImages ==
    \A r \in recipes : Cardinality({x \in images : x.recipe = r.id}) <= 3

\* The review or rating a request addresses, under the recipe of its URL.
OpinionInFlight ==
    IF request.view = "review"
    THEN {x \in reviews : x.id = request.pk /\ x.recipe = request.recipe_pk}
    ELSE {x \in ratings : x.id = request.pk /\ x.recipe = request.recipe_pk}

\* C1: after any sequence of review POST, PUT, PATCH and DELETE requests
\* there is at most one stored review for each (recipe, author) pair.
C1_OneReviewPerRecipeAndAuthor ==
    \A x, y \in reviews : (x.recipe = y.recipe /\ x.author = y.author) => x.id = y.id

\* Two users hold a review of the same recipe and a further POST by one of
\* them has just been refused.
C1_Witness ==
    /\ response.view = "review" /\ response.method = "POST"
    /\ response.status = HTTP_409_CONFLICT
    /\ \E x, y \in reviews : x.recipe = y.recipe /\ x.author # y.author

\* C2: at most one stored rating for each (recipe, author) pair, and a POST
\* by a user who already rated the recipe creates nothing.
C2_OneRatingPerRecipeAndAuthor ==
    /\ [](\A x, y \in ratings :
            (x.recipe = y.recipe /\ x.author = y.author) => x.id = y.id)
    /\ [][(/\ InFlight({"rating"}, {"POST"})
           /\ \E x \in ratings : x.author = request.user /\ x.recipe = request.recipe_pk)
          => ratings' = ratings]_vars

C2_Witness ==
    /\ response.view = "rating" /\ response.method = "POST"
    /\ response.status = HTTP_409_CONFLICT
    /\ \E x, y \in ratings : x.recipe = y.recipe /\ x.author # y.author

\* C3: no recipe holds two ingredients whose names are equal when compared
\* case-insensitively.
C3_IngredientNamesUniquePerRecipe ==
    \A x, y \in ingredients :
        (x.recipe = y.recipe /\ Lower(x.name) = Lower(y.name)) => x.id = y.id

\* C4 as stated: every recipe holds at most 3 images, and every POST by the
\* recipe's author on a recipe that holds 3 images is answered 400 with the
\* detail 'More than 3 images cannot be posted for one recipe.' and stores
\* nothing.
C4_Original ==
    /\ []AtMostThreeImages
    /\ [][ImagePostAtLimit =>
            /\ Status(HTTP_400_BAD_REQUEST)
            /\ response'.detail = TooManyImagesDetail
            /\ images' = images]_vars

\* C4 as amended: at most 3 images per recipe; a POST by the author on a
\* recipe that holds 3 images is answered 400 and stores nothing, with that
\* detail when the body passes the serializer's validation (field errors
\* otherwise).
C4_AtMostThreeImages ==
    /\ []AtMostThreeImages
    /\ [][ImagePostAtLimit =>
            /\ Status(HTTP_400_BAD_REQUEST)
            /\ images' = images
            /\ response'.detail =
                 IF Has(request.body, "image") /\ request.body.image <= 5
                 THEN TooManyImagesDetail ELSE FieldErrors]_vars

C4_Witness ==
    /\ response.view = "image" /\ response.method = "POST"
    /\ response.status = HTTP_400_BAD_REQUEST
    /\ response.detail = TooManyImagesDetail
    /\ \E r \in recipes : Cardinality({x \in images : x.recipe = r.id}) = 3

\* C5: a superuser's DELETE of a category that some recipe references is
\* answered 409 with the detail 'Category has recipes associated with it,
\* cannot be deleted.' and changes nothing; a category is removed (204) only
\* when no recipe references it.
C5_CategoryDeleteProtected ==
    [][/\ (/\ InFlight({"category"}, {"DELETE"})
           /\ is_superuser(request.user)
           /\ \E r \in recipes : r.category = request.pk)
          => /\ Status(HTTP_409_CONFLICT)
             /\ response'.detail = CategoryHasRecipesDetail
             /\ UNCHANGED tables
       /\ (InFlight({"category"}, {"DELETE"}) /\ Status(HTTP_204_NO_CONTENT))
          => /\ ~\E r \in recipes : r.category = request.pk
             /\ \E c \in categories : c.id = request.pk /\ categories' = categories \ {c}
             /\ recipes' = recipes
       /\ \A c \in categories :
            (~\E d \in categories' : d.id = c.id)
               => /\ ~\E r \in recipes : r.category = c.id
                  /\ Status(HTTP_204_NO_CONTENT)]_vars

\* A referenced category survived a superuser's DELETE.
C5_Witness ==
    /\ response.view = "category" /\ response.method = "DELETE"
    /\ response.status = HTTP_409_CONFLICT
    /\ \E r \in recipes : \E c \in categories : r.category = c.id

\* C6: ingredients and images of a recipe change only by requests of the
\* recipe's author; every POST, PUT, PATCH or DELETE on an ingredient or
\* image of an existing recipe by an authenticated user who is not the
\* recipe's author is answered 403 and changes no ingredient or image.
C6_OnlyRecipeAuthorWritesParts ==
    [][/\ (/\ InFlight({"ingredient", "image"}, Mutating)
           /\ RecipeExists(request.recipe_pk)
           /\ is_authenticated(request.user)
           /\ RecipeById(request.recipe_pk).author # request.user)
          => /\ Status(HTTP_403_FORBIDDEN)
             /\ ingredients' = ingredients
             /\ images' = images
       /\ \A x \in (ingredients \ ingredients') \cup (ingredients' \ ingredients)
                     \cup (images \ images') \cup (images' \ images) :
            RecipeById(x.recipe).author = request.user]_vars

C6_Witness ==
    /\ response.view = "image" /\ response.method = "DELETE"
    /\ response.status = HTTP_403_FORBIDDEN
    /\ images # {}

\* C7: an authenticated user's POST of a review or rating on an existing
\* recipe passes the permission checks; a PUT, PATCH or DELETE on an existing
\* review or rating by an authenticated user other than its author is
\* answered 403 and leaves reviews and ratings unchanged.
C7_OnlyAuthorWritesOpinion ==
    [][/\ (/\ InFlight({"review", "rating"}, {"POST"})
           /\ RecipeExists(request.recipe_pk)
           /\ is_authenticated(request.user))
          => response'.status \in {HTTP_201_CREATED, HTTP_400_BAD_REQUEST,
                                   HTTP_409_CONFLICT}
       /\ (/\ InFlight({"review", "rating"}, {"PUT", "PATCH", "DELETE"})
           /\ is_authenticated(request.user)
           /\ \E x \in OpinionInFlight : x.author # request.user)
          => /\ Status(HTTP_403_FORBIDDEN)
             /\ reviews' = reviews
             /\ ratings' = ratings]_vars

\* The recipe's author was refused on another user's review of the recipe.
C7_Witness ==
    /\ response.view = "review" /\ response.method = "PUT"
    /\ response.status = HTTP_403_FORBIDDEN
    /\ \E x \in reviews : RecipeById(x.recipe).author # x.author
    /\ Cardinality(reviews) = 1

\* C8: an authenticated user's POST of a recipe passes the permission check;
\* a PUT, PATCH or DELETE on an existing recipe by an authenticated user who
\* is not its author is answered 403 and changes nothing.
C8_OnlyAuthorWritesRecipe ==
    [][/\ (InFlight({"recipe"}, {"POST"}) /\ is_authenticated(request.user))
          => response'.status \in {HTTP_201_CREATED, HTTP_400_BAD_REQUEST}
       /\ (/\ InFlight({"recipe"}, {"PUT", "PATCH", "DELETE"})
           /\ is_authenticated(request.user)
           /\ \E r \in recipes : r.id = request.pk /\ r.author # request.user)
          => /\ Status(HTTP_403_FORBIDDEN)
             /\ UNCHANGED tables]_vars

C8_Witness ==
    /\ response.view = "recipe" /\ response.method = "DELETE"
    /\ response.status = HTTP_403_FORBIDDEN
    /\ recipes # {}

\* C9: the categories change only by requests of a superuser; every POST,
\* PUT, PATCH or DELETE on categories by an authenticated non-superuser is
\* answered 403 and leaves the categories unchanged.
C9_OnlySuperuserWritesCategories ==
    [][/\ categories' # categories => is_superuser(request.user)
       /\ (/\ InFlight({"category"}, Mutating)
           /\ is_authenticated(request.user)
           /\ ~is_superuser(request.user))
          => /\ Status(HTTP_403_FORBIDDEN)
             /\ categories' = categories]_vars

C9_Witness ==
    /\ response.view = "category" /\ response.method = "PUT"
    /\ response.status = HTTP_403_FORBIDDEN
    /\ categories # {}

\* C10: every POST, PUT, PATCH or DELETE without credentials on categories,
\* recipes, or on ingredients, images, reviews or ratings of an existing
\* recipe is answered 401 and changes no table.
C10_AnonymousWritesRefused ==
    [][(/\ InFlight({"category", "recipe", "ingredient", "image", "review", "rating"},
                    Mutating)
        /\ request.user = Anonymous
        /\ request.view \in ChildKinds => RecipeExists(request.recipe_pk))
       => /\ Status(HTTP_401_UNAUTHORIZED)
          /\ UNCHANGED tables]_vars

C10_Witness ==
    /\ response.view = "rating" /\ response.method = "POST"
    /\ response.status = HTTP_401_UNAUTHORIZED
    /\ recipes # {}

\* C11: on ingredients, images, reviews and ratings, a request of any method
\* whose URL names a recipe id that no stored recipe has is answered 404 with
\* the detail 'Recipe with id <id> was not found.', whoever sends it, and
\* changes nothing.
C11_MissingRecipeNotFound ==
    [][(/\ request.view \in {"ingredient", "image", "review", "rating"}
        /\ ~\E r \in recipes : r.id = request.recipe_pk)
       => /\ Status(HTTP_404_NOT_FOUND)
          /\ response'.detail = RecipeNotFoundDetail
          /\ UNCHANGED tables]_vars

\* A recipe is stored, and a DELETE of a review under another recipe id was
\* answered that the recipe was not found.
C11_Witness ==
    /\ response.view = "review" /\ response.method = "DELETE"
    /\ response.status = HTTP_404_NOT_FOUND
    /\ response.detail = RecipeNotFoundDetail
    /\ recipes # {}

\* C12: on categories and recipes the permission check precedes the object
\* lookup: a PUT or DELETE addressed to an id that is not stored is answered
\* 401 to a client without credentials, 403 to a logged-in user who is not a
\* superuser on categories, and 404 only to a caller who passes the
\* view-level check (a superuser on categories, any logged-in user on
\* recipes).
C12_PermissionBeforeLookup ==
    [][(/\ InFlight({"category", "recipe"}, {"PUT", "DELETE"})
        /\ IF request.view = "category"
           THEN ~\E c \in categories : c.id = request.pk
           ELSE ~\E r \in recipes : r.id = request.pk)
       => /\ UNCHANGED tables
          /\ response'.status =
               IF request.user = Anonymous THEN HTTP_401_UNAUTHORIZED
               ELSE IF request.view = "category" /\ request.user # Admin
               THEN HTTP_403_FORBIDDEN
               ELSE HTTP_404_NOT_FOUND]_vars

\* No category is stored, and a logged-in user's PUT on a category id was
\* refused rather than not found.
C12_Witness ==
    /\ response.view = "category" /\ response.method = "PUT"
    /\ response.status = HTTP_403_FORBIDDEN
    /\ categories = {}

\* A logged-in user's POST of a review on a recipe the user already reviewed.
SecondReviewPost ==
    /\ InFlight({"review"}, {"POST"})
    /\ is_authenticated(request.user)
    /\ \E x \in reviews : x.author = request.user /\ x.recipe = request.recipe_pk

\* C13 as stated: every POST of a review by a logged-in user who already
\* holds a review of the recipe is answered 409 with the detail 'User can
\* only have one review for each recipe.' and leaves the reviews as they are.
C13_Original ==
    [][SecondReviewPost =>
         /\ Status(HTTP_409_CONFLICT)
         /\ response'.detail = OneReviewDetail
         /\ reviews' = reviews]_vars

\* C13 as amended: such a POST leaves the reviews (the user's own review,
\* its id and content included) as they are; it is answered 409 with that
\* detail when its body passes the serializer's validation, and 400 with the
\* field errors when it does not (no content, or blank content).
C13_SecondReviewRefused ==
    [][SecondReviewPost =>
         /\ reviews' = reviews
         /\ IF Has(request.body, "content") /\ Strip(request.body.content) # <<>>
            THEN Status(HTTP_409_CONFLICT) /\ response'.detail = OneReviewDetail
            ELSE Status(HTTP_400_BAD_REQUEST) /\ response'.detail = FieldErrors]_vars

\* The only stored review survived a second POST by its author.
C13_Witness ==
    /\ response.view = "review" /\ response.method = "POST"
    /\ response.status = HTTP_409_CONFLICT
    /\ response.detail = OneReviewDetail
    /\ Cardinality(reviews) = 1

\* The recipe's author updates (PUT or PATCH) an ingredient stored under the
\* recipe of the URL.
AuthorUpdatesIngredient ==
    /\ InFlight({"ingredient"}, {"PUT", "PATCH"})
    /\ \E r \in recipes : r.id = request.recipe_pk /\ r.author = request.user
    /\ \E x \in ingredients : x.id = request.pk /\ x.recipe = request.recipe_pk

\* The name the update gives the ingredient, as it would be stored.
NameSet == Lower(Strip(request.body.name))

\* C14: an update of an ingredient by the recipe's author that sets its name
\* to the name, compared case-insensitively, of a different ingredient of the
\* same recipe is answered 400 and leaves the ingredients unchanged; a valid
\* update that names the ingredient's own current name is accepted.
C14_RenameToTakenNameRefused ==
    [][/\ (/\ AuthorUpdatesIngredient
           /\ Has(request.body, "name")
           /\ \E y \in ingredients : /\ y.recipe = request.recipe_pk
                                     /\ y.id # request.pk
                                     /\ Lower(y.name) = NameSet)
          => /\ Status(HTTP_400_BAD_REQUEST)
             /\ ingredients' = ingredients
       /\ (/\ AuthorUpdatesIngredient
           /\ IngredientSerializer_is_valid(request.body, request.method = "PATCH")
           /\ Has(request.body, "name")
           /\ \E x \in ingredients : x.id = request.pk /\ Lower(x.name) = NameSet
           /\ ~\E y \in ingredients : /\ y.recipe = request.recipe_pk
                                      /\ y.id # request.pk
                                      /\ Lower(y.name) = NameSet)
          => Status(HTTP_200_OK)]_vars

ReadRoutes ==
    {"category", "category-get-recipes", "recipe", "recipe-get-ingredients",
     "recipe-get-reviews", "recipe-get-ratings", "recipe-get-average-rating",
     "recipe-get-images", "author", "author-get-recipes"}

\* C15: a GET, HEAD or OPTIONS request on categories, recipes, authors, or on
\* ingredients, images, reviews or ratings of an existing recipe is let
\* through the permission checks for every client, with or without
\* credentials (it is never answered 401 or 403), and changes no table.
C15_ReadsPermittedToAll ==
    [][(/\ request.method \in {"GET", "HEAD", "OPTIONS"}
        /\ \/ request.view \in ReadRoutes
           \/ /\ request.view \in {"ingredient", "image", "review", "rating"}
              /\ \E r \in recipes : r.id = request.recipe_pk)
       => /\ response'.status \notin {HTTP_401_UNAUTHORIZED, HTTP_403_FORBIDDEN}
          /\ UNCHANGED tables]_vars

\* A stored review was read with HEAD.
C15_Witness ==
    /\ response.view = "review" /\ response.method = "HEAD"
    /\ response.status = HTTP_200_OK
    /\ reviews # {}

\* The values of the ratings of recipe recipe_pk with an id up to n, added up
\* id by id.
RECURSIVE ValuesUpTo(_, _)
ValuesUpTo(n, recipe_pk) ==
    IF n = 0 THEN 0
    ELSE ValuesUpTo(n - 1, recipe_pk)
         + (IF \E x \in ratings : x.id = n /\ x.recipe = recipe_pk
            THEN (CHOOSE x \in ratings : x.id = n).value
            ELSE 0)

AverageAsked ==
    /\ request.view = "recipe-get-average-rating"
    /\ request.method = "GET"
    /\ \E r \in recipes : r.id = request.pk

\* C16: GET get_average_rating of an existing recipe R answers 200 with
\* avg_rating the sum of the values of exactly the ratings whose recipe is R
\* over their number (kept as the fraction <<sum, number>>), ratings of other
\* recipes not counting, and with null (<<>>) when R has no rating.
C16_AverageOverOwnRatings ==
    [][AverageAsked =>
         /\ Status(HTTP_200_OK)
         /\ LET n == Cardinality({x \in ratings : x.recipe = request.pk})
            IN  IF n = 0
                THEN response'.data = <<>>
                ELSE response'.data
                       = <<ValuesUpTo(nextId.rating - 1, request.pk), n>>]_vars

\* The average of a recipe with one rating, of value 10, was returned while
\* another recipe holds a rating as well.
C16_Witness ==
    /\ response.view = "recipe-get-average-rating"
    /\ response.status = HTTP_200_OK
    /\ response.data = <<10, 1>>
    /\ Cardinality({x.recipe : x \in ratings}) = 2

\* A POST or PUT of a rating whose value lies outside 0..10.
RatingOutOfRange ==
    /\ InFlight({"rating"}, {"POST", "PUT"})
    /\ Has(request.body, "value")
    /\ (request.body.value < 0 \/ request.body.value > 10)

\* The request passes the checks made before the body is validated: the
\* recipe exists, the sender is logged in and, for a PUT, wrote the rating.
RatingWriteAdmitted ==
    /\ \E r \in recipes : r.id = request.recipe_pk
    /\ is_authenticated(request.user)
    /\ request.method = "PUT"
         => \E x \in ratings : /\ x.id = request.pk
                               /\ x.recipe = request.recipe_pk
                               /\ x.author = request.user

AuthorWritesNoQuantity ==
    /\ InFlight({"ingredient"}, {"POST", "PUT"})
    /\ \E r \in recipes : r.id = request.recipe_pk /\ r.author = request.user
    /\ request.method = "PUT"
         => \E x \in ingredients : x.id = request.pk /\ x.recipe = request.recipe_pk
    /\ Has(request.body, "quantity")
    /\ request.body.quantity <= 0

\* C18: every stored ingredient has a quantity strictly greater than 0; a
\* POST or PUT by the recipe's author with a quantity that is not greater
\* than 0 is answered 400 and leaves the stored ingredients as they are.
C18_QuantityPositive ==
    /\ [](\A x \in ingredients : x.quantity > 0)
    /\ [][AuthorWritesNoQuantity =>
            /\ Status(HTTP_400_BAD_REQUEST)
            /\ ingredients' = ingredients]_vars

\* A superuser's POST, or PUT on a stored category, whose trimmed title or
\* slug is the title or slug of another stored category.
SuperuserSendsTakenCategory ==
    /\ InFlight({"category"}, {"POST", "PUT"})
    /\ is_superuser(request.user)
    /\ request.method = "PUT" => \E c \in categories : c.id = request.pk
    /\ \E c \in categories :
          /\ c.id # request.pk
          /\ \/ Has(request.body, "title") /\ Strip(request.body.title) = c.title
             \/ Has(request.body, "slug") /\ Strip(request.body.slug) = c.slug

\* C19: no two stored categories share a title and no two share a slug; a
\* superuser's POST or PUT that would give a category the title or the slug
\* of another stored category is answered 400 and leaves the categories as
\* they are.
C19_CategoryTitleAndSlugUnique ==
    /\ [](\A c1, c2 \in categories :
             c1.id # c2.id => c1.title # c2.title /\ c1.slug # c2.slug)
    /\ [][SuperuserSendsTakenCategory =>
            /\ Status(HTTP_400_BAD_REQUEST)
            /\ categories' = categories]_vars

\* A PUT on a category was answered 400 while two categories are stored.
C19_Witness ==
    /\ response.view = "category" /\ response.method = "PUT"
    /\ response.status = HTTP_400_BAD_REQUEST
    /\ Cardinality(categories) = 2

\* A create or update of a recipe that the server is about to accept.
RecipeWriteAccepted ==
    /\ InFlight({"recipe"}, {"POST", "PUT", "PATCH"})
    /\ response'.status \in {HTTP_200_OK, HTTP_201_CREATED}

\* C20: every stored recipe's slug is the slugification of its title; after
\* an accepted POST, PUT or PATCH the recipe written carries the title sent
\* (the stored one when none is sent) and the slug of that title ('Pasta 2'
\* gives 'pasta-2'), whatever slug the body carries.
C20_SlugFollowsTitle ==
    /\ [](\A r \in recipes : r.slug = slugify(r.title))
    /\ [][RecipeWriteAccepted =>
            LET id == IF request.method = "POST" THEN nextId.recipe ELSE request.pk
                new == CHOOSE r \in recipes' : r.id = id
            IN  /\ \E r \in recipes' : r.id = id
                /\ new.title = IF Has(request.body, "title")
                               THEN Strip(request.body.title)
                               ELSE RecipeById(id).title
                /\ new.slug = slugify(new.title)
                /\ new.title = Pasta_1 => new.slug = <<"p", "a", "s", "t", "a", "-", "1">>
                /\ new.title = Pasta_2 => new.slug = <<"p", "a", "s", "t", "a", "-", "2">>
                /\ Has(request.body, "slug") => new.slug # request.body.slug]_vars

\* An update was accepted and a recipe retitled 'Pasta 2' has the slug
\* 'pasta-2'.
C20_Witness ==
    /\ response.view = "recipe" /\ response.method \in {"PUT", "PATCH"}
    /\ response.status = HTTP_200_OK
    /\ \E r \in recipes : /\ r.title = Pasta_2
                          /\ r.slug = <<"p", "a", "s", "t", "a", "-", "2">>

\* A create or update of an ingredient that carries a name and that the
\* server is about to accept.
IngredientNameAccepted ==
    /\ InFlight({"ingredient"}, {"POST", "PUT", "PATCH"})
    /\ Has(request.body, "name")
    /\ response'.status \in {HTTP_200_OK, HTTP_201_CREATED}

\* C21: every stored ingredient's name is entirely lower case and its slug
\* is the slugification of that name; after an accepted POST, PUT or PATCH
\* that carries a name, the ingredient written holds the trimmed name in
\* lower case ('Eggs' gives 'eggs', 'Olive Oil' gives 'olive oil' with the
\* slug 'olive-oil'), whatever letter case was sent.
C21_NameLoweredAndSlugged ==
    /\ [](\A x \in ingredients :
             /\ \A i \in 1..Len(x.name) : x.name[i] \notin DOMAIN UpperToLower
             /\ x.slug = slugify(x.name))
    /\ [][IngredientNameAccepted =>
            LET id == IF request.method = "POST" THEN nextId.ingredient ELSE request.pk
                new == CHOOSE x \in ingredients' : x.id = id
            IN  /\ \E x \in ingredients' : x.id = id
                /\ new.name = Lower(Strip(request.body.name))
                /\ request.body.name = Eggs =>
                      new.name = eggs /\ new.slug = eggs
                /\ request.body.name = Olive_Oil =>
                      /\ new.name = <<"o", "l", "i", "v", "e", " ", "o", "i", "l">>
                      /\ new.slug = <<"o", "l", "i", "v", "e", "-", "o", "i", "l">>]_vars

\* An ingredient sent as 'Olive Oil' in a PUT is stored as 'olive oil' with
\* the slug 'olive-oil'.
C21_Witness ==
    /\ response.view = "ingredient" /\ response.method = "PUT"
    /\ response.status = HTTP_200_OK
    /\ \E x \in ingredients :
          /\ x.name = <<"o", "l", "i", "v", "e", " ", "o", "i", "l">>
          /\ x.slug = <<"o", "l", "i", "v", "e", "-", "o", "i", "l">>

\* A POST of a recipe, review or rating that the server is about to answer
\* 201.
CreationAccepted ==
    /\ InFlight({"recipe", "review", "rating"}, {"POST"})
    /\ response'.status = HTTP_201_CREATED

\* C22: a created recipe has the requesting user as author, and a created
\* review or rating has the requesting user as author and the recipe of the
\* URL as recipe, whatever author or recipe the request body carries.
C22_CreatedRowsAttributed ==
    [][CreationAccepted =>
         /\ request.view = "recipe" =>
               \E r \in recipes' \ recipes :
                  /\ recipes' = recipes \cup {r}
                  /\ r.author = request.user
         /\ request.view = "review" =>
               \E x \in reviews' \ reviews :
                  /\ reviews' = reviews \cup {x}
                  /\ x.author = request.user
                  /\ x.recipe = request.recipe_pk
         /\ request.view = "rating" =>
               \E x \in ratings' \ ratings :
                  /\ ratings' = ratings \cup {x}
                  /\ x.author = request.user
                  /\ x.recipe = request.recipe_pk]_vars

\* A review sent with another author and another recipe in its body (the
\* bodies with the content 'Bad') was created and is stored for User1 and
\* recipe 1.
C22_Witness ==
    /\ response.view = "review" /\ response.method = "POST"
    /\ response.status = HTTP_201_CREATED
    /\ \E x \in reviews : x.author = User1 /\ x.recipe = 1 /\ x.content = Bad

\* C23: whatever the interleaving of review POSTs, and in particular when
\* two POSTs of one user on one recipe both pass the lookup before either
\* saves, no (recipe, author) pair ever has more than one stored review: the
\* write of a waiting POST whose pair has a stored review by then stores
\* nothing and is answered 500.
C23_RacingReviewsStoredOnce ==
    /\ [](\A u \in Users, r \in RecipePks :
             Cardinality({x \in reviews : x.recipe = r /\ x.author = u}) <= 1)
    /\ [][\A i \in DOMAIN pending :
            (/\ pending[i].view = "review"
             /\ Dequeue(i)
             /\ \E x \in reviews : /\ x.recipe = pending[i].recipe_pk
                                   /\ x.author = pending[i].user)
            => /\ reviews' = reviews
               /\ Status(HTTP_500_INTERNAL_SERVER_ERROR)]_vars

\* Two POSTs of one user on one recipe passed the lookup before either was
\* written (a lookup made later answers 409): one review is stored and the
\* second write was answered with the database's error.
C23_Witness ==
    /\ response.view = "review" /\ response.method = "POST"
    /\ response.status = HTTP_500_INTERNAL_SERVER_ERROR
    /\ response.detail = IntegrityError
    /\ Cardinality(reviews) = 1
    /\ pending = <<>>

\* C24: whatever the interleaving of image POSTs by the recipe's author, and
\* in particular when several of them count the recipe's images before any
\* saves, no recipe ever holds more than 3 images, and a POST that is taken
\* up while the recipe holds 3 or more images is answered 400 and stores
\* nothing.
C24_RacingImagesCapped ==
    /\ [](\A r \in recipes : number_of_images(r.id) <= max_number_of_images)
    /\ [][(/\ InFlight({"image"}, {"POST"})
           /\ request' = NoRequest
           /\ RecipeExists(request.recipe_pk)
           /\ RecipeById(request.recipe_pk).author = request.user
           /\ number_of_images(request.recipe_pk) >= max_number_of_images)
          => /\ Status(HTTP_400_BAD_REQUEST)
             /\ pending' = pending
             /\ images' = images]_vars

\* C25: whatever the interleaving of ingredient POSTs and PUTs, and in
\* particular when two of them carrying the same name for one recipe both
\* pass the duplicate-name lookup before either saves, no recipe ever holds
\* more than one ingredient of a name.
C25_RacingIngredientNamesUnique ==
    \A r \in recipes : \A x \in ingredients :
       x.recipe = r.id =>
          Cardinality({y \in ingredients : y.recipe = r.id /\ y.name = x.name}) <= 1

\* C26: whatever the interleaving, every stored recipe references a stored
\* category; the delete of a waiting category DELETE that finds a recipe in
\* the category (created in it, or moved into it, since the has-recipes
\* lookup) removes nothing and is answered 500.
C26_RecipeCategoryExists ==
    /\ [](\A r \in recipes : \E c \in categories : c.id = r.category)
    /\ [][\A i \in DOMAIN pending :
            (/\ pending[i].view = "category"
             /\ Dequeue(i)
             /\ \E r \in recipes : r.category = pending[i].pk)
            => /\ categories' = categories
               /\ recipes' = recipes
               /\ Status(HTTP_500_INTERNAL_SERVER_ERROR)]_vars

\* A DELETE passed the has-recipes lookup, a recipe then entered the
\* category, and the delete was refused by on_delete=PROTECT.
C26_Witness ==
    /\ response.view = "category" /\ response.method = "DELETE"
    /\ response.status = HTTP_500_INTERNAL_SERVER_ERROR
    /\ response.detail = ProtectedError
    /\ recipes # {}

\* The rows of a child table without those of recipe pk.
WithoutRecipe(rows, pk) == {x \in rows : x.recipe # pk}

\* C27: every stored ingredient, image, review and rating references a
\* stored recipe; a recipe DELETE answered 204 removes the recipe together
\* with exactly the ingredients, images, reviews and ratings of that recipe,
\* whoever wrote them, and leaves those of the other recipes as they are.
C27_ChildrenFollowRecipe ==
    /\ [](\A x \in ingredients \cup images \cup reviews \cup ratings :
             \E r \in recipes : r.id = x.recipe)
    /\ [][(InFlight({"recipe"}, {"DELETE"}) /\ Status(HTTP_204_NO_CONTENT))
          => /\ \E r \in recipes : /\ r.id = request.pk
                                   /\ r.author = request.user
                                   /\ recipes' = recipes \ {r}
             /\ ingredients' = WithoutRecipe(ingredients, request.pk)
             /\ images' = WithoutRecipe(images, request.pk)
             /\ reviews' = WithoutRecipe(reviews, request.pk)
             /\ ratings' = WithoutRecipe(ratings, request.pk)]_vars

\* A recipe was deleted with a review of it (two reviews were created, one
\* is left, and nothing but a recipe's deletion removes a review here); the
\* review that is left belongs to the other recipe.
C27_Witness ==
    /\ response.view = "recipe" /\ response.method = "DELETE"
    /\ response.status = HTTP_204_NO_CONTENT
    /\ nextId.review = 3
    /\ Cardinality(reviews) = 1
    /\ Cardinality(recipes) = 1

\* Every row of the table keeps its owner (author) from this state to the
\* next, and the table holds the same ids.
AuthorsKept(rows, rowsAfter) ==
    /\ {x.id : x \in rows} = {y.id : y \in rowsAfter}
    /\ \A x \in rows : \A y \in rowsAfter : x.id = y.id => x.author = y.author

ParentsKept(rows, rowsAfter) ==
    /\ {x.id : x \in rows} = {y.id : y \in rowsAfter}
    /\ \A x \in rows : \A y \in rowsAfter : x.id = y.id => x.recipe = y.recipe

\* C28: no PUT or PATCH, whatever author or recipe its body names, changes
\* the author of a recipe, review or rating, or the recipe of an ingredient,
\* image, review or rating.
C28_OwnerAndParentFixed ==
    [][InFlight({"recipe", "ingredient", "image", "review", "rating"}, {"PUT", "PATCH"})
       => /\ AuthorsKept(recipes, recipes')
          /\ AuthorsKept(reviews, reviews')
          /\ AuthorsKept(ratings, ratings')
          /\ ParentsKept(ingredients, ingredients')
          /\ ParentsKept(images, images')
          /\ ParentsKept(reviews, reviews')
          /\ ParentsKept(ratings, ratings')]_vars

\* A PUT that names User2 as author and the last recipe as recipe was
\* accepted (only PUT stores the content 'Bad'), and the review is still
\* User1's review of recipe 1.
C28_Witness ==
    /\ response.view = "review" /\ response.method = "PUT"
    /\ response.status = HTTP_200_OK
    /\ \E x \in reviews : x.content = Bad /\ x.author = User1 /\ x.recipe = 1

ChildRows(view) ==
    CASE view = "ingredient" -> ingredients
      [] view = "image" -> images
      [] view = "review" -> reviews
      [] view = "rating" -> ratings

\* The request names an existing recipe A and a child that is stored under
\* another recipe.
AcrossParents ==
    /\ InFlight({"ingredient", "image", "review", "rating"},
                {"GET", "PUT", "PATCH", "DELETE"})
    /\ RecipeExists(request.recipe_pk)
    /\ \E x \in ChildRows(request.view) :
          x.id = request.pk /\ x.recipe # request.recipe_pk

\* C29, as stated: a GET, PUT, PATCH or DELETE of a child through a recipe
\* that is not its parent neither returns nor changes the child, and the
\* author of the recipe in the URL is answered 404.
C29_ForeignChildNotFound ==
    [][AcrossParents
       => /\ UNCHANGED tables
          /\ response'.status \notin {HTTP_200_OK, HTTP_204_NO_CONTENT}
          /\ request.user = RecipeById(request.recipe_pk).author
                => Status(HTTP_404_NOT_FOUND)]_vars

\* C29, amended: the child is neither returned nor changed; the author of the
\* recipe in the URL is answered 404, except for PUT and PATCH of an image,
\* which the image viewset does not serve and answers 405.
C29_ForeignChildUnreachable ==
    [][AcrossParents
       => /\ UNCHANGED tables
          /\ response'.status \notin {HTTP_200_OK, HTTP_204_NO_CONTENT}
          /\ request.user = RecipeById(request.recipe_pk).author
                => IF request.view = "image" /\ request.method \in {"PUT", "PATCH"}
                   THEN Status(HTTP_405_METHOD_NOT_ALLOWED)
                   ELSE Status(HTTP_404_NOT_FOUND)]_vars

\* Every ingredient id is stored and every ingredient belongs to recipe 2, so
\* the DELETE that found the recipe but not the ingredient went through
\* another recipe, and came from that recipe's author.
C29_Witness ==
    /\ response.view = "ingredient" /\ response.method = "DELETE"
    /\ response.status = HTTP_404_NOT_FOUND
    /\ response.detail = ObjectNotFoundDetail
    /\ \A pk \in 1..MaxIngredientId : \E x \in ingredients : x.id = pk /\ x.recipe = 2

\* The recipe's author patches a stored ingredient with quantity and/or
\* units_of_measurement only, with values the serializer accepts.
AuthorPatchesWithoutName ==
    /\ InFlight({"ingredient"}, {"PATCH"})
    /\ RecipeExists(request.recipe_pk)
    /\ RecipeById(request.recipe_pk).author = request.user
    /\ IngredientInRecipe(request.recipe_pk, request.pk)
    /\ DOMAIN request.body # {}
    /\ DOMAIN request.body \subseteq {"quantity", "units_of_measurement"}
    /\ IngredientSerializer_is_valid(request.body, TRUE)

\* C30: a PATCH of an ingredient by the recipe's author that carries only
\* quantity and/or units_of_measurement is answered 200, stores the fields it
\* carries and leaves the name and every other row as they were.
C30_PatchWithoutNameSucceeds ==
    [][AuthorPatchesWithoutName
       => LET old == IngredientById(request.pk)
              new == [old EXCEPT
                        !.quantity = IF Has(request.body, "quantity")
                                     THEN request.body.quantity ELSE @,
                        !.units_of_measurement =
                            IF Has(request.body, "units_of_measurement")
                            THEN request.body.units_of_measurement ELSE @]
          IN  /\ Status(HTTP_200_OK)
              /\ ingredients' = (ingredients \ {old}) \cup {new}
              /\ UNCHANGED <<categories, recipes, images, reviews, ratings>>]_vars

====
